---- MODULE Spec2Model ----
(***************************************************************************)
(* A model of the BTC accumulation bot (src/btc_bot.py): the BTCMarkets    *)
(* REST client with its errors-as-values boundary, the indicator engine,   *)
(* the sizing rule table, and the run() controller of one invocation.      *)
(*                                                                         *)
(* Units.  Money (config amounts, balances, prices, order amounts) is an   *)
(* integer number of tenths of an AUD, so that base * multiplier is exact  *)
(* with the multiplier held in tenths (4.0 is 40, 0.2 is 2).  A ratio is a *)
(* pair num/den with den > 0 and is compared by cross-multiplication.      *)
(***************************************************************************)
EXTENDS Integers, Sequences, FiniteSets, TLC

VARIABLES
    pc,          \* position of the invocation (see the actions below)
    config,      \* Config: the credentials and BASE/MIN/MAX_WEEKLY_AMOUNT
    sent,        \* the requests sent so far, in order
    outcome,     \* the outcome of the latest HTTP exchange
    resp,        \* the value the latest client operation returned
    ma_200,      \* get_mayer_multiple: the moving average (ratio sum/len)
    mayer,       \* get_mayer_multiple: current_price / ma_200 (ratio)
    fear_greed,  \* get_fear_greed_index: the value returned
    multiplier,  \* calculate_buy_amount: the multiplier selected, in tenths
    signal,      \* calculate_buy_amount: the signal label
    buy_amount,  \* calculate_buy_amount: final_amount
    balances,    \* get_account_balance: the latest parsed map
    price,       \* get_current_price: the latest price returned
    portfolio,   \* run: the latest value of get_portfolio_summary
    result,      \* run: the value execute_buy_order returned
    error,       \* the exception that ended the invocation, or "none"
    exit_code,   \* the process's exit status, -1 while running
    wire,        \* the latest request the client put on the wire
    account,     \* the exchange's side of the account (AUD available)
    fs,          \* the paths that exist under the working directory
    handlers     \* the handlers logging.basicConfig gave the root logger

vars == <<pc, config, sent, outcome, resp, ma_200, mayer, fear_greed,
          multiplier, signal, buy_amount, balances, price, portfolio,
          result, error, exit_code, wire, account, fs, handlers>>

-----------------------------------------------------------------------------
(* JSON values.  Scalars are one-field records, so that values of         *)
(* different JSON types are unequal without being compared field-wise.    *)

Null == [null |-> TRUE]
Num(n) == [num |-> n]           \* a JSON number
Str(s) == [str |-> s]           \* a JSON string that is not a numeral
NumStr(n) == [numstr |-> n]     \* a JSON string that is the numeral of n
Obj(f) == [kind |-> "object", members |-> f]
Arr(s) == [kind |-> "array", items |-> s]
EmptyObj == Obj(<<>>)

IsObj(v) == "kind" \in DOMAIN v /\ v.kind = "object"
IsArr(v) == "kind" \in DOMAIN v /\ v.kind = "array"
IsStr(v) == "str" \in DOMAIN v
IsNumStr(v) == "numstr" \in DOMAIN v
IsNum(v) == "num" \in DOMAIN v
IsNull(v) == "null" \in DOMAIN v

\* key in dict
HasKey(v, k) == IsObj(v) /\ k \in DOMAIN v.members

\* The strings of the model that contain a given word (Python's `in` on a
\* str is a substring test).
ContainsWord(s, w) ==
    \/ s = w
    \/ w = "error" /\ s \in {"internal error", "error: statusCode 500"}
    \/ w = "statusCode" /\ s \in {"error: statusCode 500"}

\* Python's `w in v`: a key test on a dict, an element test on a list, a
\* substring test on a str, and a TypeError on a number or None.
\* The result is "yes", "no" or "TypeError".
PyIn(w, v) ==
    IF IsObj(v) THEN (IF w \in DOMAIN v.members THEN "yes" ELSE "no")
    ELSE IF IsArr(v)
        THEN (IF \E i \in 1..Len(v.items) : v.items[i] = Str(w)
              THEN "yes" ELSE "no")
    ELSE IF IsStr(v) THEN (IF ContainsWord(v.str, w) THEN "yes" ELSE "no")
    ELSE IF IsNumStr(v) THEN "no"
    ELSE "TypeError"

\* The callers' shape check: 'error' in x or 'statusCode' in x.
\* "error" when the value is classified as an error, "data" when it is not,
\* "TypeError" when the test itself raises.
ShapeCheck(x) ==
    IF PyIn("error", x) = "TypeError" THEN "TypeError"
    ELSE IF PyIn("error", x) = "yes" THEN "error"
    ELSE IF PyIn("statusCode", x) = "yes" THEN "error"
    ELSE "data"

\* float(v): a number or a numeral parses, anything else raises
\* (ValueError for a str, TypeError for None, a list or a dict).
FloatOf(v) ==
    IF IsNumStr(v) THEN [ok |-> TRUE, val |-> v.numstr]
    ELSE IF IsNum(v) THEN [ok |-> TRUE, val |-> v.num]
    ELSE [ok |-> FALSE, val |-> 0]

-----------------------------------------------------------------------------
(* BTCMarketsClient.__make_http_call: the HTTP exchange and what the      *)
(* client returns for each of its outcomes.                               *)

HttpCodes == {400, 401, 500}

HttpMessage(code) ==
    CASE code = 400 -> "HTTP 400: Bad Request"
      [] code = 401 -> "HTTP 401: Unauthorized"
      [] OTHER -> "HTTP 500: Internal Server Error"

\* error_data['statusCode'] = e.code : item assignment on the decoded body.
\* A dict takes the key (replacing a member of that name); a list, str,
\* number or None raises TypeError.
SetItem(v, k, x) ==
    IF IsObj(v)
    THEN [ok |-> TRUE,
          val |-> Obj([j \in DOMAIN v.members \cup {k} |->
                          IF j = k THEN x ELSE v.members[j]])]
    ELSE [ok |-> FALSE, val |-> v]

HttpErrorFallback(code) ==
    Obj("error" :> Str(HttpMessage(code)) @@ "statusCode" :> Num(code))

\* An exception leaving a function, as a value of the model.
Raised(e) == [raised |-> e]
IsRaised(v) == "raised" \in DOMAIN v

\* A plausible slip: no inner fallback, so that a body that does not
\* decode, or that takes no item, lets the exception out of the handler.
HandleHTTPErrorNoFallback(o) ==
    IF ~o.json THEN Raised("JSONDecodeError")
    ELSE IF ~SetItem(o.body, "statusCode", Num(o.code)).ok
        THEN Raised("TypeError")
    ELSE SetItem(o.body, "statusCode", Num(o.code)).val

\* A plausible slip: the decoded body returned without the status code.
HandleHTTPErrorNoStatus(o) ==
    IF o.json /\ IsObj(o.body) THEN o.body ELSE HttpErrorFallback(o.code)

\* except HTTPError: the body decoded and given the status code, or, when
\* that raises, the fallback built from the code and the reason.
HandleHTTPError(o) ==
    IF o.json /\ SetItem(o.body, "statusCode", Num(o.code)).ok
    THEN SetItem(o.body, "statusCode", Num(o.code)).val
    ELSE HttpErrorFallback(o.code)

HandleURLError(o) == Obj("error" :> Str("Network error"))

HandleException(o) == Obj("error" :> Str("Unexpected error"))

\* The value __make_http_call returns for outcome o of the exchange:
\*   tag "ok"         a 2xx response; json says whether the body decodes
\*   tag "http_error" urlopen raised HTTPError (4xx/5xx) with status code
\*   tag "url_error"  urlopen raised URLError (DNS, refused, timeout)
\*   tag "exception"  any other exception inside the try block
MakeHttpCall(o) ==
    CASE o.tag = "ok" -> (IF o.json THEN o.body ELSE HandleException(o))
      [] o.tag = "http_error" -> HandleHTTPError(o)
      [] o.tag = "url_error" -> HandleURLError(o)
      [] OTHER -> HandleException(o)

Outcome(tag, json, code, body) ==
    [tag |-> tag, json |-> json, code |-> code, body |-> body]

NoOutcome == Outcome("none", FALSE, 0, Null)

Ok(body) == Outcome("ok", TRUE, 200, body)

\* JSON bodies a server can send with an error status.
ErrorBodies ==
    { Obj("code" :> Str("InvalidAmount") @@ "message" :> Str("invalid amount")),
      Obj("code" :> Str("Throttled") @@ "statusCode" :> Num(999)),
      Obj("error" :> Str("internal error")),
      EmptyObj,
      Arr(<<>>),
      Arr(<<Str("error")>>),
      Str("internal error"),
      Num(0),
      Null }

\* The outcomes in which the exchange did not succeed.
FailureOutcomes ==
    { Outcome("http_error", TRUE, c, b) : c \in HttpCodes, b \in ErrorBodies }
    \cup { Outcome("http_error", FALSE, c, Null) : c \in HttpCodes }
    \cup { Outcome("url_error", FALSE, 0, Null),
           Outcome("exception", FALSE, 0, Null),
           Outcome("ok", FALSE, 200, Null) }

\* The request a client operation sends, by the name used in `sent`.
ClientOps ==
    {"ticker", "candles", "balances", "orders", "market_buy", "limit_buy",
     "cancel"}

\* An optional value: None, or a value that is present.
None == [none |-> TRUE]
Some(x) == [some |-> x]
IsNone(v) == "none" \in DOMAIN v

\* A string is a sequence of tokens, so that + is \o.
Method(op) ==
    CASE op \in {"market_buy", "limit_buy"} -> <<"POST">>
      [] op = "cancel" -> <<"DELETE">>
      [] OTHER -> <<"GET">>

Path(op) ==
    CASE op = "ticker" -> <<"/v3/markets/", "BTC-AUD", "/ticker">>
      [] op = "candles" -> <<"/v3/markets/", "BTC-AUD", "/candles">>
      [] op = "balances" -> <<"/v3/accounts/me/balances">>
      [] OTHER -> <<"/v3/orders">>

QueryString(op) ==
    CASE op = "candles" -> Some(<<"timeWindow=", "1d", "&limit=", "200">>)
      [] op = "balances" -> Some(<<>>)
      [] op = "orders" -> Some(<<"status=", "all">>)
      [] op = "cancel" -> Some(<<"id=", "7524">>)
      [] OTHER -> None

\* The payload dict of the two order operations, as its items in insertion
\* order.  (One numeral stands for the amount and one for the price.)
Payload(op) ==
    CASE op = "market_buy" ->
            Some(<< <<"marketId", "BTC-AUD">>, <<"amount", "0.04545455">>,
                    <<"type", "Market">>, <<"side", "Bid">> >>)
      [] op = "limit_buy" ->
            Some(<< <<"marketId", "BTC-AUD">>, <<"price", "22000">>,
                    <<"amount", "0.04545455">>, <<"type", "Limit">>,
                    <<"side", "Bid">> >>)
      [] OTHER -> None

RECURSIVE JsonItems(_, _, _)
JsonItems(items, item_separator, key_separator) ==
    IF items = <<>> THEN <<>>
    ELSE <<"\"", Head(items)[1], "\"", key_separator,
           "\"", Head(items)[2], "\"">>
         \o (IF Tail(items) = <<>> THEN <<>> ELSE <<item_separator>>)
         \o JsonItems(Tail(items), item_separator, key_separator)

\* json.dumps(data, separators=(item_separator, key_separator))
JsonDumps(items, item_separator, key_separator) ==
    <<"{">> \o JsonItems(items, item_separator, key_separator) \o <<"}">>

\* bytes(data, encoding="utf-8")
Bytes(data) == [utf8 |-> data]

\* __sign_message: the base64 text of the HMAC-SHA512 of the message under
\* the key (the digest is a function of exactly these two).
SignMessage(private_key, message) ==
    [base64 |-> [hmac_sha512 |-> private_key, message |-> message]]

\* A plausible slip: the clock read again for the header, a millisecond on.
BuildHeadersRegenerated(method, api_key, private_key, path, data, millis) ==
    LET now == <<ToString(millis)>>
        message == method \o path \o now \o (IF IsNone(data) THEN <<>> ELSE data.some)
    IN  [Accept |-> "application/json",
         AcceptCharset |-> "UTF-8",
         ContentType |-> "application/json",
         BM_AUTH_APIKEY |-> api_key,
         BM_AUTH_TIMESTAMP |-> <<ToString(millis + 1)>>,
         BM_AUTH_SIGNATURE |-> SignMessage(private_key, message),
         UserAgent |-> "BTC-Accumulation-Bot/2.0"]

\* ___build_headers; millis is int(time.time() * 1000), read once.
BuildHeaders(method, api_key, private_key, path, data, millis) ==
    LET now == <<ToString(millis)>>
        message == method \o path \o now \o (IF IsNone(data) THEN <<>> ELSE data.some)
    IN  [Accept |-> "application/json",
         AcceptCharset |-> "UTF-8",
         ContentType |-> "application/json",
         BM_AUTH_APIKEY |-> api_key,
         BM_AUTH_TIMESTAMP |-> now,
         BM_AUTH_SIGNATURE |-> SignMessage(private_key, message),
         UserAgent |-> "BTC-Accumulation-Bot/2.0"]

\* __make_http_call up to urlopen: the request put on the wire.
HttpRequest(method, apiKey, privateKey, path, queryString, payload, millis) ==
    LET data == IF IsNone(payload) THEN None
                ELSE Some(JsonDumps(payload.some, ",", ":"))
        headers == BuildHeaders(method, apiKey, privateKey, path, data, millis)
        full_path == IF IsNone(queryString) THEN path
                     ELSE path \o <<"?">> \o queryString.some
    IN  [method |-> method,
         url |-> <<"https://api.btcmarkets.net">> \o full_path,
         headers |-> headers,
         body |-> IF method \in {<<"POST">>, <<"PUT">>}
                     /\ ~IsNone(data) /\ data.some # <<>>
                  THEN Some(Bytes(data.some)) ELSE None]

NoRequest == [method |-> <<>>, url |-> <<>>, headers |-> None, body |-> None]

\* base64.b64decode of the configured secret (BTCMarketsClient.__init__)
B64Decode(private_key) == IF private_key = "c2VjcmV0" THEN "secret" ELSE ""

MaxReading == 2         \* the clock's readings are 1..MaxReading

\* One client operation: the request is signed at some reading of the clock
\* and sent, the exchange has outcome o, and the operation returns what
\* __make_http_call returns for it.
Call(op, o) ==
    /\ sent' = Append(sent, op)
    /\ \E millis \in 1..MaxReading :
        wire' = HttpRequest(Method(op), config.BTCMARKETS_API_KEY,
                            B64Decode(config.BTCMARKETS_PRIVATE_KEY),
                            Path(op), QueryString(op), Payload(op), millis)
    /\ outcome' = o
    /\ resp' = MakeHttpCall(o)

get_ticker(o) == Call("ticker", o)
get_candles(o) == Call("candles", o)
get_account_balances(o) == Call("balances", o)
get_orders(o) == Call("orders", o)
place_market_buy_order(o) == Call("market_buy", o)
place_limit_buy_order(o) == Call("limit_buy", o)
cancel_order(o) == Call("cancel", o)

-----------------------------------------------------------------------------
(* The log file.  A path is the sequence of its components, relative to   *)
(* the working directory.                                                  *)

LogsDir == <<"logs">>

\* f'logs/btc_bot_{datetime.now().strftime("%Y%m%d")}.log'
LogFile == LogsDir \o <<"btc_bot_%Y%m%d.log">>

\* os.path.dirname
Dirname(path) == SubSeq(path, 1, Len(path) - 1)

\* open(path, 'a'), as logging.FileHandler does on construction: the file is
\* created if its directory exists, FileNotFoundError otherwise.
OpenAppend(files, path) ==
    IF Dirname(path) = <<>> \/ Dirname(path) \in files
    THEN [files |-> files \cup {path}]
    ELSE Raised("FileNotFoundError")

\* os.makedirs(path, exist_ok=True), for a path of one component
Makedirs(files, path) == files \cup {path}

\* handlers=[logging.FileHandler(...), logging.StreamHandler()]
Installed == <<[FileHandler |-> LogFile], [StreamHandler |-> "stderr"]>>

-----------------------------------------------------------------------------
(* Config and the sizing policy (calculate_buy_amount).                    *)

AUD(n) == n * 10                \* n dollars, in tenths of an AUD

Ratio(n, d) == [num |-> n, den |-> d]

\* r < t/10 and r > t/10 for a ratio r with r.den > 0
RatioLt(r, t) == r.num * 10 < t * r.den
RatioGt(r, t) == r.num * 10 > t * r.den

\* Python's min(a, b) and max(a, b) on two arguments
PyMin(a, b) == IF b < a THEN b ELSE a
PyMax(a, b) == IF b > a THEN b ELSE a

MakeConfig(key, secret, base, lo, hi) ==
    [BTCMARKETS_API_KEY |-> key, BTCMARKETS_PRIVATE_KEY |-> secret,
     BASE_WEEKLY_AMOUNT |-> base, MIN_WEEKLY_AMOUNT |-> lo,
     MAX_WEEKLY_AMOUNT |-> hi]

Row(m, s) == [multiplier |-> m, signal |-> s]

\* A plausible slip in the rule chain: the multipliers of the two overbought
\* bands exchanged.
SelectRuleBandsExchanged(m, fg) ==
    IF RatioLt(m, 8) /\ fg < 25 THEN Row(40, "PERFECT STORM")
    ELSE IF RatioLt(m, 8) /\ fg < 35 THEN Row(35, "EXTREME OVERSOLD + FEAR")
    ELSE IF RatioLt(m, 8) THEN Row(30, "EXTREME OVERSOLD")
    ELSE IF RatioLt(m, 10) /\ fg < 30 THEN Row(25, "UNDERSOLD + FEAR")
    ELSE IF RatioLt(m, 10) THEN Row(18, "UNDERSOLD")
    ELSE IF RatioLt(m, 12) /\ fg < 40 THEN Row(12, "FAIR VALUE + FEAR")
    ELSE IF RatioGt(m, 24) THEN Row(2, "EXTREME BUBBLE")
    ELSE IF RatioGt(m, 16) THEN Row(0, "OVERBOUGHT")
    ELSE Row(10, "FAIR VALUE")

\* A plausible slip in the rule chain: the sentiment-free test mayer < 0.8
\* placed ahead of the two tests that refine it.
SelectRuleUnordered(m, fg) ==
    IF RatioLt(m, 8) THEN Row(30, "EXTREME OVERSOLD")
    ELSE IF RatioLt(m, 10) /\ fg < 30 THEN Row(25, "UNDERSOLD + FEAR")
    ELSE IF RatioLt(m, 10) THEN Row(18, "UNDERSOLD")
    ELSE IF RatioLt(m, 12) /\ fg < 40 THEN Row(12, "FAIR VALUE + FEAR")
    ELSE IF RatioGt(m, 24) THEN Row(0, "EXTREME BUBBLE")
    ELSE IF RatioGt(m, 16) THEN Row(2, "OVERBOUGHT")
    ELSE Row(10, "FAIR VALUE")

\* The if/elif chain: the multiplier (in tenths) and the signal selected.
SelectRule(m, fg) ==
    IF RatioLt(m, 8) /\ fg < 25 THEN Row(40, "PERFECT STORM")
    ELSE IF RatioLt(m, 8) /\ fg < 35 THEN Row(35, "EXTREME OVERSOLD + FEAR")
    ELSE IF RatioLt(m, 8) THEN Row(30, "EXTREME OVERSOLD")
    ELSE IF RatioLt(m, 10) /\ fg < 30 THEN Row(25, "UNDERSOLD + FEAR")
    ELSE IF RatioLt(m, 10) THEN Row(18, "UNDERSOLD")
    ELSE IF RatioLt(m, 12) /\ fg < 40 THEN Row(12, "FAIR VALUE + FEAR")
    ELSE IF RatioGt(m, 24) THEN Row(0, "EXTREME BUBBLE")
    ELSE IF RatioGt(m, 16) THEN Row(2, "OVERBOUGHT")
    ELSE Row(10, "FAIR VALUE")

\* A plausible slip in the clamp: the floor applied whatever the multiplier.
ClampAmountAlwaysFloored(cfg, mult) ==
    PyMax(PyMin((cfg.BASE_WEEKLY_AMOUNT * mult) \div 10, cfg.MAX_WEEKLY_AMOUNT),
          cfg.MIN_WEEKLY_AMOUNT)

\* final_amount = base_amount * multiplier, then
\* max(min(final_amount, MAX), MIN if multiplier > 0 else 0)
ClampAmount(cfg, mult) ==
    PyMax(PyMin((cfg.BASE_WEEKLY_AMOUNT * mult) \div 10, cfg.MAX_WEEKLY_AMOUNT),
          IF mult > 0 THEN cfg.MIN_WEEKLY_AMOUNT ELSE 0)

\* calculate_buy_amount, from the indicators on: what it computes.
CalculateBuyAmount(cfg, m, fg) ==
    [multiplier |-> SelectRule(m, fg).multiplier,
     signal |-> SelectRule(m, fg).signal,
     final_amount |-> ClampAmount(cfg, SelectRule(m, fg).multiplier)]

-----------------------------------------------------------------------------
(* The sizing policy on its own: the inputs are drawn in the initial      *)
(* state and one step applies calculate_buy_amount to them.               *)

MaxRatioNum == 52       \* ratios 0/20 .. 52/20, i.e. 0.00 .. 2.60
RatioDen == 20
MaxSentiment == 102     \* sentiment values -2 .. 102

DecideRatios == { Ratio(n, RatioDen) : n \in 0..MaxRatioNum }
DecideSentiments == (0 - 2)..MaxSentiment
DecideConfigs ==
    { MakeConfig("key", "c2VjcmV0", b, lo, AUD(2000)) :
        b \in {AUD(0), AUD(50), AUD(500), AUD(1000)},
        lo \in {AUD(0), AUD(100), AUD(3000)} }

NoRatio == Ratio(0, 1)

\* The exchange's side of the account plays no part in one invocation.
NoAccount == [aud |-> -1]

InitDecide ==
    /\ pc = "decide"
    /\ config \in DecideConfigs
    /\ mayer \in DecideRatios
    /\ fear_greed \in DecideSentiments
    /\ sent = <<>>
    /\ outcome = NoOutcome
    /\ resp = Null
    /\ ma_200 = NoRatio
    /\ multiplier = -1
    /\ signal = "none"
    /\ buy_amount = -1
    /\ balances = <<>>
    /\ price = -1
    /\ portfolio = Null
    /\ result = Null
    /\ error = "none"
    /\ exit_code = -1
    /\ wire = NoRequest
    /\ account = NoAccount
    /\ fs = {LogsDir, LogFile}
    /\ handlers = Installed

Decide ==
    /\ pc = "decide"
    /\ pc' = "decided"
    /\ multiplier' = CalculateBuyAmount(config, mayer, fear_greed).multiplier
    /\ signal' = CalculateBuyAmount(config, mayer, fear_greed).signal
    /\ buy_amount' = CalculateBuyAmount(config, mayer, fear_greed).final_amount
    /\ UNCHANGED <<fs, handlers, account, config, sent, wire, outcome, resp, ma_200, mayer, fear_greed,
                   balances, price, portfolio, result, error, exit_code>>

NextDecide == Decide

SpecDecide == InitDecide /\ [][NextDecide]_vars

-----------------------------------------------------------------------------
(* C1: the rule table, first match wins.                                   *)

\* The table of the rule list: row i's condition on (R, S), in the order
\* listed; row 9 is the default.
RowHolds(i, m, s) ==
    CASE i = 1 -> RatioLt(m, 8) /\ s < 25
      [] i = 2 -> RatioLt(m, 8) /\ s < 35
      [] i = 3 -> RatioLt(m, 8)
      [] i = 4 -> RatioLt(m, 10) /\ s < 30
      [] i = 5 -> RatioLt(m, 10)
      [] i = 6 -> RatioLt(m, 12) /\ s < 40
      [] i = 7 -> RatioGt(m, 24)
      [] i = 8 -> RatioGt(m, 16)
      [] OTHER -> TRUE

RowMultiplier ==
    <<40, 35, 30, 25, 18, 12, 0, 2, 10>>

RowLabel ==
    <<"PERFECT STORM", "EXTREME OVERSOLD + FEAR", "EXTREME OVERSOLD",
      "UNDERSOLD + FEAR", "UNDERSOLD", "FAIR VALUE + FEAR", "EXTREME BUBBLE",
      "OVERBOUGHT", "FAIR VALUE">>

FirstRow(m, s) ==
    CHOOSE i \in 1..9 : RowHolds(i, m, s) /\ \A j \in 1..(i - 1) : ~RowHolds(j, m, s)

\* C1: for every ratio R and sentiment S, calculate_buy_amount selects the
\* multiplier and the label of the first row of the table, in the listed
\* order, whose condition holds; with R = 0.75 and S = 20 that is the
\* perfect-storm row (4.0), never a later row that matches too.
C1_FirstMatchWins ==
    pc = "decided" =>
        /\ multiplier = RowMultiplier[FirstRow(mayer, fear_greed)]
        /\ signal = RowLabel[FirstRow(mayer, fear_greed)]
        /\ (mayer.num * 100 = 75 * mayer.den /\ fear_greed = 20
                => multiplier = 40 /\ signal = "PERFECT STORM")

\* R = 0.75, S = 20 decided: rows 1, 2, 3 and 5 all match.
C1_Witness ==
    /\ pc = "decided"
    /\ mayer.num * 100 = 75 * mayer.den
    /\ fear_greed = 20
    /\ RowHolds(2, mayer, fear_greed) /\ RowHolds(3, mayer, fear_greed)

-----------------------------------------------------------------------------
(* C2: the clamp.                                                          *)

DefaultAmounts(cfg) ==
    /\ cfg.BASE_WEEKLY_AMOUNT = AUD(500)
    /\ cfg.MIN_WEEKLY_AMOUNT = AUD(100)
    /\ cfg.MAX_WEEKLY_AMOUNT = AUD(2000)

\* the ratio r equals h/100
RatioIs(r, h) == r.num * 100 = h * r.den

\* base=500, min=100, max=2000: R=0.5,S=10 gives 2000, R=1.1,S=50 gives 500,
\* R=2.5 gives 0 and R=1.7 gives 100, the last two for any S.
C2_Examples ==
    DefaultAmounts(config) =>
        /\ (RatioIs(mayer, 50) /\ fear_greed = 10 => buy_amount = AUD(2000))
        /\ (RatioIs(mayer, 110) /\ fear_greed = 50 => buy_amount = AUD(500))
        /\ (RatioIs(mayer, 250) => buy_amount = 0)
        /\ (RatioIs(mayer, 170) => buy_amount = AUD(100))

\* C2 as stated: for every ratio, sentiment and every configured
\* (base, min, max) the amount is exactly 0 when the selected multiplier is
\* 0, and lies in [min, max] when the selected multiplier is > 0.
C2_AsStated ==
    pc = "decided" =>
        /\ (multiplier = 0 => buy_amount = 0)
        /\ (multiplier > 0 =>
                /\ config.MIN_WEEKLY_AMOUNT <= buy_amount
                /\ buy_amount <= config.MAX_WEEKLY_AMOUNT)
        /\ C2_Examples

\* C2 as amended: the same for every configured (base, min, max) with
\* min <= max; a configuration with min > max yields min, above max.
C2_ClampWithinBand ==
    pc = "decided" =>
        /\ (multiplier = 0 => buy_amount = 0)
        /\ (multiplier > 0
            /\ config.MIN_WEEKLY_AMOUNT <= config.MAX_WEEKLY_AMOUNT =>
                /\ config.MIN_WEEKLY_AMOUNT <= buy_amount
                /\ buy_amount <= config.MAX_WEEKLY_AMOUNT)
        /\ (multiplier > 0
            /\ config.MIN_WEEKLY_AMOUNT > config.MAX_WEEKLY_AMOUNT =>
                buy_amount = config.MIN_WEEKLY_AMOUNT)
        /\ C2_Examples

\* Both clamps act: a zero multiplier with a positive floor configured, and
\* base * multiplier above the cap.
C2_Witness ==
    /\ pc = "decided"
    /\ config.MIN_WEEKLY_AMOUNT > 0
    /\ config.MIN_WEEKLY_AMOUNT <= config.MAX_WEEKLY_AMOUNT
    /\ \/ multiplier = 0 /\ buy_amount = 0
       \/ /\ multiplier > 0
          /\ (config.BASE_WEEKLY_AMOUNT * multiplier) \div 10
                 > config.MAX_WEEKLY_AMOUNT
          /\ buy_amount = config.MAX_WEEKLY_AMOUNT

-----------------------------------------------------------------------------
(* The indicator engine and the account: what the bot computes from the    *)
(* values the client returns.                                              *)

\* dict.get(k, default) on a JSON object
Get(v, k, default) == IF k \in DOMAIN v.members THEN v.members[k] ELSE default

\* get_current_price on the ticker the client returned: the price, or the
\* exception it raises (logged and re-raised by its own handler).
GetCurrentPrice(ticker) ==
    IF ShapeCheck(ticker) = "TypeError" THEN Raised("TypeError")
    ELSE IF ShapeCheck(ticker) = "error" THEN Raised("API Error")
    ELSE IF ~IsObj(ticker) THEN Raised("TypeError")
    ELSE IF ~HasKey(ticker, "lastPrice") THEN Raised("KeyError")
    ELSE IF ~FloatOf(ticker.members["lastPrice"]).ok THEN Raised("ValueError")
    ELSE Num(FloatOf(ticker.members["lastPrice"]).val)

MinCandles == 50        \* at least 50 days for a meaningful MA
MaPeriod == 200         \* the moving average's window

\* A plausible slip: the feed taken in the order received.
AsReceived(seq) == seq

\* reversed(candles)
Reversed(seq) == [i \in 1..Len(seq) |-> seq[Len(seq) + 1 - i]]

\* float(candle[4]) : the fifth field of a candle array
CandleClose(candle) ==
    IF IsArr(candle) /\ Len(candle.items) >= 5
    THEN FloatOf(candle.items[5])
    ELSE [ok |-> FALSE, val |-> 0]

\* the sum of a sequence of numbers, by halves
RECURSIVE SumSeq(_)
SumSeq(seq) ==
    IF seq = <<>> THEN 0
    ELSE IF Len(seq) = 1 THEN seq[1]
    ELSE SumSeq(SubSeq(seq, 1, Len(seq) \div 2))
         + SumSeq(SubSeq(seq, Len(seq) \div 2 + 1, Len(seq)))

\* prices[-n:]
LastN(seq, n) == SubSeq(seq, Len(seq) - n + 1, Len(seq))

\* A plausible slip: no test of the number of prices.
MovingAverageUnguarded(candles) ==
    IF ShapeCheck(candles) = "TypeError" THEN Raised("TypeError")
    ELSE IF ShapeCheck(candles) = "error" THEN Raised("Candles API Error")
    ELSE IF IsObj(candles) /\ DOMAIN candles.members = {}
        THEN Raised("No candle data received")
    ELSE IF ~IsArr(candles) THEN Raised("TypeError")
    ELSE IF Len(candles.items) = 0 THEN Raised("No candle data received")
    ELSE IF \E i \in 1..Len(candles.items) : ~CandleClose(candles.items[i]).ok
        THEN Raised("ValueError")
    ELSE LET prices == [i \in 1..Len(candles.items) |->
                           CandleClose(Reversed(candles.items)[i]).val]
             ma_period == PyMin(MaPeriod, Len(prices))
         IN  Ratio(SumSeq(LastN(prices, ma_period)), ma_period)

\* get_mayer_multiple up to the moving average: ma_200 as the ratio
\* sum/len of the closes averaged, or the exception raised.
MovingAverage(candles) ==
    IF ShapeCheck(candles) = "TypeError" THEN Raised("TypeError")
    ELSE IF ShapeCheck(candles) = "error" THEN Raised("Candles API Error")
    ELSE IF IsObj(candles) /\ DOMAIN candles.members = {}
        THEN Raised("No candle data received")
    ELSE IF ~IsArr(candles) THEN Raised("TypeError")
    ELSE IF Len(candles.items) = 0 THEN Raised("No candle data received")
    ELSE IF \E i \in 1..Len(candles.items) : ~CandleClose(candles.items[i]).ok
        THEN Raised("ValueError")
    ELSE IF Len(candles.items) < MinCandles
        THEN Raised("Insufficient price data")
    ELSE LET prices == [i \in 1..Len(candles.items) |->
                           CandleClose(Reversed(candles.items)[i]).val]
             ma_period == PyMin(MaPeriod, Len(prices))
         IN  Ratio(SumSeq(LastN(prices, ma_period)), ma_period)

\* mayer_multiple = current_price / ma_200
MayerMultiple(current_price, ma) == Ratio(current_price * ma.den, ma.num)

\* int(v): a numeral or a number converts; a str that is no numeral raises
\* ValueError, None (or a list, a dict) TypeError.
IntOf(v) ==
    IF IsNumStr(v) THEN Num(v.numstr)
    ELSE IF IsNum(v) THEN Num(v.num)
    ELSE IF IsStr(v) THEN Raised("ValueError")
    ELSE Raised("TypeError")

\* What the try block of get_fear_greed_index evaluates to for outcome o of
\* the lookup: int(data['data'][0]['value']), or the exception raised.
FearGreedLookup(o) ==
    IF o.tag = "timeout" THEN Raised("Timeout")
    ELSE IF o.tag = "connection" THEN Raised("RequestException")
    ELSE IF o.tag = "http_error" THEN Raised("RequestException")
    ELSE IF o.tag = "exception" THEN Raised("Exception")
    ELSE IF ~o.json THEN Raised("ValueError")
    ELSE IF ~IsObj(o.body) THEN Raised("TypeError")
    ELSE IF ~HasKey(o.body, "data") THEN Raised("KeyError")
    ELSE LET data == o.body.members["data"] IN
        IF IsObj(data) THEN Raised("KeyError")
        ELSE IF ~IsArr(data) THEN Raised("TypeError")
        ELSE IF Len(data.items) = 0 THEN Raised("IndexError")
        ELSE IF ~IsObj(data.items[1]) THEN Raised("TypeError")
        ELSE IF ~HasKey(data.items[1], "value") THEN Raised("KeyError")
        ELSE IntOf(data.items[1].members["value"])

\* A plausible slip: no catch-all handler, so that an exception outside the
\* three named groups leaves the function.
FearGreedNoCatchAll(o) ==
    IF ~IsRaised(FearGreedLookup(o)) THEN FearGreedLookup(o)
    ELSE IF FearGreedLookup(o).raised \in
            {"Timeout", "RequestException", "KeyError", "ValueError", "IndexError"}
        THEN Num(50)
    ELSE FearGreedLookup(o)

\* get_fear_greed_index: the value parsed, or 50 from whichever handler
\* takes the exception (Timeout, RequestException, the parse errors, and
\* the catch-all).
GetFearGreedIndex(o) ==
    IF ~IsRaised(FearGreedLookup(o)) THEN FearGreedLookup(o)
    ELSE IF FearGreedLookup(o).raised = "Timeout" THEN Num(50)
    ELSE IF FearGreedLookup(o).raised = "RequestException" THEN Num(50)
    ELSE IF FearGreedLookup(o).raised \in {"KeyError", "ValueError", "IndexError"}
        THEN Num(50)
    ELSE Num(50)

\* One entry of the balance list added to the map, as the loop body does.
\* (The asset names of the modelled bodies are strings, or absent.)
ParseEntry(info, entry) ==
    IF ~IsObj(entry) THEN info
    ELSE LET asset_name == Get(entry, "assetName", Null)
             available_balance ==
                 Get(entry, "available", Get(entry, "balance", NumStr(0)))
         IN  IF IsStr(asset_name) /\ asset_name.str # "" /\ ~IsNull(available_balance)
             THEN [a \in DOMAIN info \cup {asset_name.str} |->
                      IF a = asset_name.str
                      THEN (IF FloatOf(available_balance).ok
                            THEN FloatOf(available_balance).val ELSE 0)
                      ELSE info[a]]
             ELSE info

RECURSIVE ParseEntries(_, _)
ParseEntries(info, items) ==
    IF items = <<>> THEN info
    ELSE ParseEntries(ParseEntry(info, Head(items)), Tail(items))

\* A plausible slip: no handler around float(), so that an amount that does
\* not parse raises to the outer handler, which returns {}.
GetAccountBalanceAborting(b) ==
    IF ShapeCheck(b) # "data" THEN <<>>
    ELSE IF ~IsArr(b) THEN <<>>
    ELSE IF \E i \in 1..Len(b.items) :
                /\ IsObj(b.items[i])
                /\ LET amount == Get(b.items[i], "available",
                                     Get(b.items[i], "balance", NumStr(0)))
                   IN  ~IsNull(amount) /\ ~FloatOf(amount).ok
        THEN <<>>
    ELSE ParseEntries(<<>>, b.items)

\* get_account_balance on what the client returned: the map from asset to
\* available amount; {} on an error shape, on a body that is no list, and
\* on any exception.
GetAccountBalance(b) ==
    IF ShapeCheck(b) # "data" THEN <<>>
    ELSE IF ~IsArr(b) THEN <<>>
    ELSE ParseEntries(<<>>, b.items)

\* balances.get(asset, 0)
BalanceOf(info, asset) == IF asset \in DOMAIN info THEN info[asset] ELSE 0

\* A plausible slip: an empty balance map treated as a failure too.
GetPortfolioSummaryStrict(info, current_price) ==
    IF IsRaised(current_price) \/ info = <<>> THEN Null
    ELSE [btc_balance |-> BalanceOf(info, "BTC"),
          btc_value_aud |-> BalanceOf(info, "BTC") * current_price.num,
          aud_balance |-> BalanceOf(info, "AUD"),
          total_portfolio_aud |->
              BalanceOf(info, "BTC") * current_price.num + BalanceOf(info, "AUD"),
          current_btc_price |-> current_price.num]

\* run(): if final_portfolio: (the summary is logged unless it is None)
SnapshotLogged(final_portfolio) == final_portfolio # Null

\* get_portfolio_summary from the parsed balances and the price fetched:
\* None when get_current_price raised.
GetPortfolioSummary(info, current_price) ==
    IF IsRaised(current_price) THEN Null
    ELSE [btc_balance |-> BalanceOf(info, "BTC"),
          btc_value_aud |-> BalanceOf(info, "BTC") * current_price.num,
          aud_balance |-> BalanceOf(info, "AUD"),
          total_portfolio_aud |->
              BalanceOf(info, "BTC") * current_price.num + BalanceOf(info, "AUD"),
          current_btc_price |-> current_price.num]

-----------------------------------------------------------------------------
(* The environment: the responses the trading API and the sentiment        *)
(* service are modelled to give.                                           *)

Ticker(p) ==
    Obj("marketId" :> Str("BTC-AUD") @@ "lastPrice" :> NumStr(p))

\* A candle: [timestamp, open, high, low, close, volume]
Candle(close) ==
    Arr(<<Str("timestamp"), NumStr(close + 1), NumStr(close + 2),
          NumStr(close - 1), NumStr(close), NumStr(1)>>)

\* A newest-first feed of n candles: the k newest close at `recent`, the
\* others at `old`.
Feed(n, k, recent, old) ==
    Arr([i \in 1..n |-> IF i <= k THEN Candle(recent) ELSE Candle(old)])

BalanceEntry(asset, available) ==
    Obj("assetName" :> Str(asset) @@ "balance" :> NumStr(available + 10)
        @@ "available" :> NumStr(available) @@ "locked" :> NumStr(10))

FearGreedBody(value) ==
    Obj("name" :> Str("Fear and Greed Index")
        @@ "data" :> Arr(<<Obj("value" :> value
                               @@ "value_classification" :> Str("n/a"))>>))

RunPrices == {15, 22, 34, 50}

TickerBodies ==
    { Ticker(p) : p \in RunPrices }
    \cup { Obj("marketId" :> Str("BTC-AUD")),
           Obj("marketId" :> Str("BTC-AUD") @@ "lastPrice" :> Str("n/a")),
           Arr(<<>>),
           Null }

CandleBodies ==
    { Feed(MinCandles, MinCandles, 20, 20),
      Feed(MinCandles + 1, 1, 71, 20),
      Feed(MinCandles - 1, 1, 20, 20),
      Arr(<<>>),
      Arr(<<Arr(<<Str("timestamp")>>)>>),
      EmptyObj }

BalanceBodies ==
    { Arr(<<BalanceEntry("AUD", AUD(5000)), BalanceEntry("BTC", 2)>>),
      Arr(<<BalanceEntry("BTC", 1), BalanceEntry("AUD", AUD(150))>>),
      Arr(<<Obj("assetName" :> Str("AUD") @@ "available" :> Str("n/a")),
            Obj("assetName" :> Str("BTC") @@ "balance" :> NumStr(3))>>),
      Arr(<<>>),
      EmptyObj }

OrderBodies ==
    { Obj("orderId" :> Str("7524") @@ "status" :> Str("Accepted")),
      EmptyObj,
      Arr(<<>>) }

OrderListBodies == { Arr(<<>>), Arr(<<Obj("orderId" :> Str("7524"))>>) }

CancelBodies == { Obj("orderId" :> Str("7524")) }

SuccessBodies(op) ==
    CASE op = "ticker" -> TickerBodies
      [] op = "candles" -> CandleBodies
      [] op = "balances" -> BalanceBodies
      [] op = "orders" -> OrderListBodies
      [] op = "cancel" -> CancelBodies
      [] OTHER -> OrderBodies

\* Every outcome of the exchange of operation op.
Outcomes(op) == { Ok(b) : b \in SuccessBodies(op) } \cup FailureOutcomes

\* The failures the run is explored with: an error status with a JSON
\* object (returned with statusCode alone as its marker), an error status
\* with a JSON array (the handler's fallback), and a network failure.
RunFailures ==
    { Outcome("http_error", TRUE, 400,
              Obj("code" :> Str("InvalidAmount") @@ "message" :> Str("invalid amount"))),
      Outcome("http_error", TRUE, 500, Arr(<<>>)),
      Outcome("url_error", FALSE, 0, Null) }

\* The bodies the run is explored with, by the position of the request:
\* every price where the ratio is computed, one price elsewhere.
RunBodies(at) ==
    CASE at = "mayer_candles" ->
            { Feed(MinCandles, MinCandles, 20, 20),
              Feed(MaPeriod + 1, 1, 71, 20),
              Feed(MinCandles - 1, 1, 20, 20),
              Arr(<<>>),
              Arr(<<Arr(<<Str("timestamp")>>)>>) }
      [] at = "mayer_price" ->
            { Ticker(p) : p \in RunPrices } \cup { Arr(<<>>) }
      [] at \in {"test_balances", "portfolio_balances", "order_balances",
                 "final_balances"} ->
            { Arr(<<BalanceEntry("AUD", AUD(5000)), BalanceEntry("BTC", 2)>>),
              Arr(<<BalanceEntry("BTC", 1), BalanceEntry("AUD", AUD(150))>>),
              Arr(<<Obj("assetName" :> Str("AUD") @@ "available" :> Str("n/a")),
                    Obj("assetName" :> Str("BTC") @@ "balance" :> NumStr(3))>>),
              EmptyObj }
      [] at = "order_place" -> OrderBodies
      [] OTHER ->
            { Ticker(22), Obj("marketId" :> Str("BTC-AUD")), Arr(<<>>) }

RunOutcomes(at) == { Ok(b) : b \in RunBodies(at) } \cup RunFailures

RunSentiments == {0 - 5, 20, 150}

SentimentOutcomes ==
    { Ok(FearGreedBody(NumStr(v))) : v \in RunSentiments }
    \cup { Ok(FearGreedBody(Num(45))),
           Ok(FearGreedBody(Str("n/a"))),
           Ok(FearGreedBody(Null)),
           Ok(Obj("data" :> Arr(<<>>))),
           Ok(Obj("data" :> EmptyObj)),
           Ok(Obj("metadata" :> Obj("error" :> Str("internal error")))),
           Ok(Arr(<<>>)),
           Ok(Null),
           Outcome("ok", FALSE, 200, Null),
           Outcome("http_error", FALSE, 500, Null),
           Outcome("timeout", FALSE, 0, Null),
           Outcome("connection", FALSE, 0, Null),
           Outcome("exception", FALSE, 0, Null) }

-----------------------------------------------------------------------------
(* The client on its own: any operation, any outcome of its exchange.      *)

MaxCalls == 2

InitClient ==
    /\ pc = "client"
    /\ config = MakeConfig("key", "c2VjcmV0", AUD(500), AUD(100), AUD(2000))
    /\ sent = <<>>
    /\ outcome = NoOutcome
    /\ resp = Null
    /\ ma_200 = NoRatio
    /\ mayer = NoRatio
    /\ fear_greed = -1
    /\ multiplier = -1
    /\ signal = "none"
    /\ buy_amount = -1
    /\ balances = <<>>
    /\ price = -1
    /\ portfolio = Null
    /\ result = Null
    /\ error = "none"
    /\ exit_code = -1
    /\ wire = NoRequest
    /\ account = NoAccount
    /\ fs = {LogsDir, LogFile}
    /\ handlers = Installed

ClientIdle ==
    /\ pc = "client"
    /\ Len(sent) < MaxCalls
    /\ UNCHANGED <<pc, fs, handlers, account, config, ma_200, mayer, fear_greed, multiplier, signal,
                   buy_amount, balances, price, portfolio, result, error,
                   exit_code>>

ClientGetTicker == ClientIdle /\ \E o \in Outcomes("ticker") : get_ticker(o)

ClientGetCandles == ClientIdle /\ \E o \in Outcomes("candles") : get_candles(o)

ClientGetAccountBalances ==
    ClientIdle /\ \E o \in Outcomes("balances") : get_account_balances(o)

ClientGetOrders == ClientIdle /\ \E o \in Outcomes("orders") : get_orders(o)

ClientPlaceMarketBuyOrder ==
    ClientIdle /\ \E o \in Outcomes("market_buy") : place_market_buy_order(o)

ClientPlaceLimitBuyOrder ==
    ClientIdle /\ \E o \in Outcomes("limit_buy") : place_limit_buy_order(o)

ClientCancelOrder == ClientIdle /\ \E o \in Outcomes("cancel") : cancel_order(o)

NextClient ==
    \/ ClientGetTicker
    \/ ClientGetCandles
    \/ ClientGetAccountBalances
    \/ ClientGetOrders
    \/ ClientPlaceMarketBuyOrder
    \/ ClientPlaceLimitBuyOrder
    \/ ClientCancelOrder

SpecClient == InitClient /\ [][NextClient]_vars

-----------------------------------------------------------------------------
(* C6, C7: the errors-as-values boundary of the client.                    *)

\* The value r holds the decoded payload: each member of an object payload
\* unchanged, or a payload that is no object as one of r's members.
CarriesPayload(r, payload) ==
    /\ IsObj(r)
    /\ IF IsObj(payload)
       THEN \A k \in DOMAIN payload.members :
                k \in DOMAIN r.members /\ r.members[k] = payload.members[k]
       ELSE \E k \in DOMAIN r.members : r.members[k] = payload

CarriesStatus(r, code) ==
    IsObj(r) /\ "statusCode" \in DOMAIN r.members /\ r.members["statusCode"] = Num(code)

HttpErrorWithJson == sent # <<>> /\ outcome.tag = "http_error" /\ outcome.json

\* C6 as stated: for every client operation, an HTTP error whose body is
\* JSON is returned, not raised, as a value holding both the original
\* decoded payload and the status code under statusCode, whatever JSON
\* value the body is.
C6_AsStated ==
    HttpErrorWithJson =>
        /\ ~IsRaised(resp)
        /\ CarriesPayload(resp, outcome.body)
        /\ CarriesStatus(resp, outcome.code)

\* C6 as amended: an HTTP error is returned, not raised.  When the body is
\* a JSON object the value returned is that object with statusCode set to
\* the status code: every other member unchanged, a statusCode member of
\* the payload itself replaced.  When the body is JSON of another type the
\* payload is dropped and the value is {error: "HTTP <code>: <reason>",
\* statusCode: <code>}.
C6_HttpErrorAsValue ==
    HttpErrorWithJson =>
        /\ ~IsRaised(resp)
        /\ CarriesStatus(resp, outcome.code)
        /\ IF IsObj(outcome.body)
           THEN /\ DOMAIN resp.members = DOMAIN outcome.body.members \cup {"statusCode"}
                /\ \A k \in DOMAIN outcome.body.members \ {"statusCode"} :
                       resp.members[k] = outcome.body.members[k]
           ELSE /\ DOMAIN resp.members = {"error", "statusCode"}
                /\ resp.members["error"] = Str(HttpMessage(outcome.code))
                /\ ~CarriesPayload(resp, outcome.body)

\* An HTTP 400 with the JSON object {code, message}: returned with both
\* members and statusCode 400.
C6_Witness ==
    /\ HttpErrorWithJson
    /\ outcome.code = 400
    /\ HasKey(outcome.body, "message")
    /\ HasKey(resp, "message") /\ HasKey(resp, "code")
    /\ CarriesStatus(resp, 400)

NonSuccess(o) == o.tag # "ok" \/ ~o.json

\* C7: no exception crosses the client boundary.  For every outcome of the
\* exchange every client operation returns a value; a success returns the
\* decoded body unmodified, and every other return is an object carrying an
\* error marker (an error key or a statusCode key), so that the callers'
\* shape check classifies it as an error.
C7_ErrorsAsValues ==
    sent # <<>> =>
        /\ ~IsRaised(resp)
        /\ (~NonSuccess(outcome) => resp = outcome.body)
        /\ (NonSuccess(outcome) =>
                /\ IsObj(resp)
                /\ ("error" \in DOMAIN resp.members \/ "statusCode" \in DOMAIN resp.members)
                /\ ShapeCheck(resp) = "error")

\* An error status with a body that is JSON but takes no statusCode item
\* (an array): the inner handler's fallback is what is returned.
C7_Witness ==
    /\ HttpErrorWithJson
    /\ IsArr(outcome.body)
    /\ HasKey(resp, "error")
    /\ Len(sent) = MaxCalls

-----------------------------------------------------------------------------
(* One invocation of the script: __main__, BTCAccumulationBot() and run(), *)
(* one step per request sent.                                              *)

\* The credentials of the environment: "" stands for a variable that is
\* unset or empty; "c2VjcmV" is set but is no base64 (incorrect padding).
RunConfigs ==
    { MakeConfig(k, sk, AUD(500), AUD(100), AUD(2000)) :
        k \in {"", "key"}, sk \in {"", "c2VjcmV0", "c2VjcmV"} }
    \cup { MakeConfig("key", "c2VjcmV0", AUD(50), AUD(100), AUD(2000)) }

Init ==
    /\ pc = "main"
    /\ config \in RunConfigs
    /\ sent = <<>>
    /\ outcome = NoOutcome
    /\ resp = Null
    /\ ma_200 = NoRatio
    /\ mayer = NoRatio
    /\ fear_greed = -1
    /\ multiplier = -1
    /\ signal = "none"
    /\ buy_amount = -1
    /\ balances = <<>>
    /\ price = -1
    /\ portfolio = Null
    /\ result = Null
    /\ error = "none"
    /\ exit_code = -1
    /\ wire = NoRequest
    /\ account = NoAccount
    /\ fs = {LogsDir, LogFile}
    /\ handlers = Installed

\* A plausible slip: the handler logs the exception and does not re-raise.
FailSwallowed(e) ==
    /\ pc' = "done"
    /\ error' = e
    /\ exit_code' = 0

\* An exception in run(): logged by run's handler and re-raised, logged by
\* __main__'s handler and re-raised, so that the process exits non-zero.
Fail(e) ==
    /\ pc' = "done"
    /\ error' = e
    /\ exit_code' = 1

Goto(next) ==
    /\ pc' = next
    /\ UNCHANGED <<error, exit_code>>

\* A plausible slip: the secret left out of the required variables.
ValidateKeyOnly(cfg) == cfg.BTCMARKETS_API_KEY # ""

\* Config.validate: both credentials are set and not empty.
Validate(cfg) == cfg.BTCMARKETS_API_KEY # "" /\ cfg.BTCMARKETS_PRIVATE_KEY # ""

\* base64.b64decode(private_key) in BTCMarketsClient.__init__: raises
\* binascii.Error on a string whose padding is incorrect.
B64DecodeRaises(private_key) == private_key = "c2VjcmV"

\* __main__: BTCAccumulationBot() validates the configuration and builds
\* the client; then bot.run() starts.
Main ==
    /\ pc = "main"
    /\ IF ~Validate(config)
       THEN Fail("Missing required environment variables")
       ELSE IF B64DecodeRaises(config.BTCMARKETS_PRIVATE_KEY)
       THEN Fail("binascii.Error")
       ELSE Goto("test_ticker")
    /\ UNCHANGED <<fs, handlers, account, config, sent, wire, outcome, resp, ma_200, mayer, fear_greed,
                   multiplier, signal, buy_amount, balances, price, portfolio,
                   result>>

\* A plausible slip in the probe: only the error key is looked for.
ProbePassesErrorKeyOnly(r) == PyIn("error", r) = "no"

\* test_api_connection: a probe passes unless the value returned is
\* error-shaped (or the shape test raises, which the handler turns to False).
ProbePasses(r) == ShapeCheck(r) = "data"

\* test_api_connection, the public endpoint; run() raises when it fails.
TestApiTicker ==
    /\ pc = "test_ticker"
    /\ \E o \in RunOutcomes(pc) : get_ticker(o)
    /\ IF ProbePasses(resp')
       THEN Goto("test_balances")
       ELSE Fail("API connection test failed")
    /\ UNCHANGED <<fs, handlers, account, config, ma_200, mayer, fear_greed, multiplier, signal,
                   buy_amount, balances, price, portfolio, result>>

\* test_api_connection, the private endpoint.
TestApiBalances ==
    /\ pc = "test_balances"
    /\ \E o \in RunOutcomes(pc) : get_account_balances(o)
    /\ IF ProbePasses(resp')
       THEN Goto("mayer_candles")
       ELSE Fail("API connection test failed")
    /\ UNCHANGED <<fs, handlers, account, config, ma_200, mayer, fear_greed, multiplier, signal,
                   buy_amount, balances, price, portfolio, result>>

\* calculate_buy_amount -> get_mayer_multiple: the candles and the average.
MayerCandles ==
    /\ pc = "mayer_candles"
    /\ \E o \in RunOutcomes(pc) : get_candles(o)
    /\ IF IsRaised(MovingAverage(resp'))
       THEN Fail(MovingAverage(resp').raised) /\ UNCHANGED ma_200
       ELSE Goto("mayer_price") /\ ma_200' = MovingAverage(resp')
    /\ UNCHANGED <<fs, handlers, account, config, mayer, fear_greed, multiplier, signal, buy_amount,
                   balances, price, portfolio, result>>

\* get_mayer_multiple -> get_current_price, and the ratio.
MayerPrice ==
    /\ pc = "mayer_price"
    /\ \E o \in RunOutcomes(pc) : get_ticker(o)
    /\ IF IsRaised(GetCurrentPrice(resp'))
       THEN Fail(GetCurrentPrice(resp').raised) /\ UNCHANGED <<mayer, price>>
       ELSE /\ Goto("fear_greed")
            /\ price' = GetCurrentPrice(resp').num
            /\ mayer' = MayerMultiple(GetCurrentPrice(resp').num, ma_200)
    /\ UNCHANGED <<fs, handlers, account, config, ma_200, fear_greed, multiplier, signal, buy_amount,
                   balances, portfolio, result>>

\* calculate_buy_amount -> get_fear_greed_index, then the rule chain and the
\* clamp (no further request is made before calculate_buy_amount returns).
FearGreed ==
    /\ pc = "fear_greed"
    /\ \E o \in SentimentOutcomes :
        /\ sent' = Append(sent, "sentiment")
        /\ outcome' = o
        /\ IF IsRaised(GetFearGreedIndex(o))
           THEN /\ Fail(GetFearGreedIndex(o).raised)
                /\ UNCHANGED <<fear_greed, multiplier, signal, buy_amount>>
           ELSE LET fg == GetFearGreedIndex(o).num
                    d == CalculateBuyAmount(config, mayer, fg)
                IN  /\ Goto("run_price")
                    /\ fear_greed' = fg
                    /\ multiplier' = d.multiplier
                    /\ signal' = d.signal
                    /\ buy_amount' = d.final_amount
    /\ UNCHANGED <<fs, handlers, account, config, wire, resp, ma_200, mayer, balances, price, portfolio,
                   result>>

\* run(): current_price = self.get_current_price()
RunPrice ==
    /\ pc = "run_price"
    /\ \E o \in RunOutcomes(pc) : get_ticker(o)
    /\ IF IsRaised(GetCurrentPrice(resp'))
       THEN Fail(GetCurrentPrice(resp').raised) /\ UNCHANGED price
       ELSE Goto("portfolio_balances") /\ price' = GetCurrentPrice(resp').num
    /\ UNCHANGED <<fs, handlers, account, config, ma_200, mayer, fear_greed, multiplier, signal,
                   buy_amount, balances, portfolio, result>>

\* get_portfolio_summary -> get_account_balance, before the strategy step
\* and again after it.
PortfolioBalances ==
    /\ pc \in {"portfolio_balances", "final_balances"}
    /\ \E o \in RunOutcomes(pc) : get_account_balances(o)
    /\ balances' = GetAccountBalance(resp')
    /\ Goto(IF pc = "portfolio_balances" THEN "portfolio_price" ELSE "final_price")
    /\ UNCHANGED <<fs, handlers, account, config, ma_200, mayer, fear_greed, multiplier, signal,
                   buy_amount, price, portfolio, result>>

\* get_portfolio_summary -> get_current_price and the summary; after the
\* final one run() returns and the process exits zero.
PortfolioPrice ==
    /\ pc \in {"portfolio_price", "final_price"}
    /\ \E o \in RunOutcomes(pc) : get_ticker(o)
    /\ portfolio' = GetPortfolioSummary(balances, GetCurrentPrice(resp'))
    /\ price' = IF IsRaised(GetCurrentPrice(resp')) THEN price
                ELSE GetCurrentPrice(resp').num
    /\ IF pc = "portfolio_price"
       THEN Goto("strategy")
       ELSE pc' = "done" /\ exit_code' = 0 /\ UNCHANGED error
    /\ UNCHANGED <<fs, handlers, account, config, ma_200, mayer, fear_greed, multiplier, signal,
                   buy_amount, balances, result>>

Failure(reason) == [success |-> FALSE, reason |-> Str(reason)]

\* A plausible slip: the strategy entered for an amount of zero too.
ShouldBuyNonNegative(amount) == amount >= 0

\* run(): if buy_amount > 0
ShouldBuy(amount) == amount > 0

\* run(): the strategy branch, and execute_buy_order's first test.
Strategy ==
    /\ pc = "strategy"
    /\ IF ShouldBuy(buy_amount)
       THEN IF buy_amount < config.MIN_WEEKLY_AMOUNT
            THEN Goto("final_balances") /\ result' = Failure("Amount below minimum")
            ELSE Goto("order_balances") /\ UNCHANGED result
       ELSE Goto("final_balances") /\ UNCHANGED result
    /\ UNCHANGED <<fs, handlers, account, config, sent, wire, outcome, resp, ma_200, mayer, fear_greed,
                   multiplier, signal, buy_amount, balances, price, portfolio>>

\* A plausible slip: the comparison the wrong way round.
InsufficientBalanceInverted(aud_balance, amount_aud) == amount_aud < aud_balance

\* A plausible slip: a balance of zero (all that a failed fetch leaves)
\* taken as unknown, and the order let through.
InsufficientBalanceIfKnown(aud_balance, amount_aud) ==
    aud_balance > 0 /\ aud_balance < amount_aud

\* execute_buy_order: if aud_balance < amount_aud
InsufficientBalance(aud_balance, amount_aud) == aud_balance < amount_aud

\* execute_buy_order: the balance check.
OrderBalances ==
    /\ pc = "order_balances"
    /\ \E o \in RunOutcomes(pc) : get_account_balances(o)
    /\ balances' = GetAccountBalance(resp')
    /\ IF InsufficientBalance(BalanceOf(balances', "AUD"), buy_amount)
       THEN Goto("final_balances") /\ result' = Failure("Insufficient balance")
       ELSE Goto("order_price") /\ UNCHANGED result
    /\ UNCHANGED <<fs, handlers, account, config, ma_200, mayer, fear_greed, multiplier, signal,
                   buy_amount, price, portfolio>>

\* execute_buy_order: the price for the amount; an exception becomes a
\* failure result.
OrderPrice ==
    /\ pc = "order_price"
    /\ \E o \in RunOutcomes(pc) : get_ticker(o)
    /\ IF IsRaised(GetCurrentPrice(resp'))
       THEN /\ Goto("final_balances")
            /\ result' = Failure(GetCurrentPrice(resp').raised)
            /\ UNCHANGED price
       ELSE IF GetCurrentPrice(resp').num = 0
       THEN /\ Goto("final_balances")
            /\ result' = Failure("ZeroDivisionError")
            /\ price' = 0
       ELSE /\ Goto("order_place")
            /\ price' = GetCurrentPrice(resp').num
            /\ UNCHANGED result
    /\ UNCHANGED <<fs, handlers, account, config, ma_200, mayer, fear_greed, multiplier, signal,
                   buy_amount, balances, portfolio>>

HttpStatusText(v) ==
    IF v = Num(400) THEN "HTTP 400"
    ELSE IF v = Num(401) THEN "HTTP 401"
    ELSE IF v = Num(500) THEN "HTTP 500"
    ELSE "HTTP None"

\* A plausible slip: the order's id and status copied without a default, so
\* that a response lacking them gives a result lacking them.
OrderResultNoDefaults(order_result, amount_aud, current_price) ==
    IF ShapeCheck(order_result) = "TypeError" THEN Failure("TypeError")
    ELSE IF ~IsObj(order_result) THEN Failure("AttributeError")
    ELSE IF ShapeCheck(order_result) = "error"
        THEN [success |-> FALSE,
              reason |-> Get(order_result, "error",
                             Str(HttpStatusText(Get(order_result, "statusCode", Null))))]
    ELSE IF HasKey(order_result, "orderId") /\ HasKey(order_result, "status")
        THEN [success |-> TRUE,
              btc_amount |-> Ratio(amount_aud, current_price),
              aud_amount |-> amount_aud,
              order_id |-> order_result.members["orderId"],
              order_status |-> order_result.members["status"],
              price |-> current_price,
              order_details |-> order_result]
    ELSE [success |-> TRUE,
          btc_amount |-> Ratio(amount_aud, current_price),
          aud_amount |-> amount_aud,
          price |-> current_price,
          order_details |-> order_result]

\* execute_buy_order from the order's response on: the value returned.
OrderResult(order_result, amount_aud, current_price) ==
    IF ShapeCheck(order_result) = "TypeError" THEN Failure("TypeError")
    ELSE IF ~IsObj(order_result) THEN Failure("AttributeError")
    ELSE IF ShapeCheck(order_result) = "error"
        THEN [success |-> FALSE,
              reason |-> Get(order_result, "error",
                             Str(HttpStatusText(Get(order_result, "statusCode", Null))))]
    ELSE [success |-> TRUE,
          btc_amount |-> Ratio(amount_aud, current_price),
          aud_amount |-> amount_aud,
          order_id |-> Get(order_result, "orderId", Str("N/A")),
          order_status |-> Get(order_result, "status", Str("Unknown")),
          price |-> current_price,
          order_details |-> order_result]

\* The order step, leaving for `retry` when the order failed.
OrderPlaceThen(retry) ==
    /\ pc = "order_place"
    /\ \E o \in RunOutcomes(pc) : place_market_buy_order(o)
    /\ result' = OrderResult(resp', buy_amount, price)
    /\ Goto(IF result'.success THEN "final_balances" ELSE retry)
    /\ UNCHANGED <<fs, handlers, account, config, ma_200, mayer, fear_greed, multiplier, signal,
                   buy_amount, balances, price, portfolio>>

\* A plausible slip: a failed order is placed again.
OrderPlaceRetrying == OrderPlaceThen("order_place")

\* execute_buy_order: the market buy, once, and the result returned.
OrderPlace == OrderPlaceThen("final_balances")

Next ==
    \/ Main
    \/ TestApiTicker
    \/ TestApiBalances
    \/ MayerCandles
    \/ MayerPrice
    \/ FearGreed
    \/ RunPrice
    \/ PortfolioBalances
    \/ PortfolioPrice
    \/ Strategy
    \/ OrderBalances
    \/ OrderPrice
    \/ OrderPlace

\* One invocation that no signal interrupts.
Spec == Init /\ [][Next]_vars

\* Ctrl-C (SIGINT) while the bot is being built or is running: Python raises
\* KeyboardInterrupt, which is no Exception, so that run()'s handler does
\* not take it; __main__ logs 'interrupted by user' and does not re-raise,
\* and the process ends normally.
KeyboardInterrupt ==
    /\ pc # "done"
    /\ pc' = "done"
    /\ error' = "KeyboardInterrupt"
    /\ exit_code' = 0
    /\ UNCHANGED <<fs, handlers, account, config, sent, wire, outcome, resp, ma_200, mayer, fear_greed,
                   multiplier, signal, buy_amount, balances, price, portfolio,
                   result>>

NextMain ==
    \/ Next
    \/ KeyboardInterrupt

\* One invocation, which the user may interrupt.
SpecMain == Init /\ [][NextMain]_vars

-----------------------------------------------------------------------------
(* The script from the interpreter's start: the module's top-level        *)
(* statements run in file order, the logging setup (53-60) long before    *)
(* the __main__ block (590-602).                                           *)

\* The working directories the script is started in: without and with logs.
StartDirs == { {}, {LogsDir} }

InitStartup ==
    /\ pc = "logging"
    /\ fs \in StartDirs
    /\ handlers = <<>>
    /\ config \in RunConfigs
    /\ sent = <<>>
    /\ outcome = NoOutcome
    /\ resp = Null
    /\ ma_200 = NoRatio
    /\ mayer = NoRatio
    /\ fear_greed = -1
    /\ multiplier = -1
    /\ signal = "none"
    /\ buy_amount = -1
    /\ balances = <<>>
    /\ price = -1
    /\ portfolio = Null
    /\ result = Null
    /\ error = "none"
    /\ exit_code = -1
    /\ wire = NoRequest
    /\ account = NoAccount

\* logging.basicConfig(handlers=[logging.FileHandler(...), ...]) at module
\* level: FileHandler opens its file when it is constructed.  An exception
\* here is outside every try block: traceback, exit status 1.
SetupLogging ==
    /\ pc = "logging"
    /\ IF IsRaised(OpenAppend(fs, LogFile))
       THEN /\ Fail(OpenAppend(fs, LogFile).raised)
            /\ UNCHANGED <<fs, handlers>>
       ELSE /\ fs' = OpenAppend(fs, LogFile).files
            /\ handlers' = Installed
            /\ Goto("makedirs")
    /\ UNCHANGED <<account, config, sent, wire, outcome, resp, ma_200, mayer,
                   fear_greed, multiplier, signal, buy_amount, balances,
                   price, portfolio, result>>

\* __main__: os.makedirs('logs', exist_ok=True)
MakeLogsDir ==
    /\ pc = "makedirs"
    /\ fs' = Makedirs(fs, LogsDir)
    /\ Goto("main")
    /\ UNCHANGED <<handlers, account, config, sent, wire, outcome, resp,
                   ma_200, mayer, fear_greed, multiplier, signal, buy_amount,
                   balances, price, portfolio, result>>

NextStartup ==
    \/ SetupLogging
    \/ MakeLogsDir
    \/ Next

\* One invocation from the interpreter's start, which no signal interrupts.
SpecStartup == InitStartup /\ [][NextStartup]_vars

-----------------------------------------------------------------------------
(* Claims about one invocation.                                            *)

Count(op) == Cardinality({ i \in 1..Len(sent) : sent[i] = op })

LastSent == IF sent = <<>> THEN "none" ELSE sent[Len(sent)]

IsPrefix(a, b) == Len(a) <= Len(b) /\ SubSeq(b, 1, Len(a)) = a

\* a value carrying an error key or a statusCode key
ErrorShaped(r) == HasKey(r, "error") \/ HasKey(r, "statusCode")

\* a ticker the price can be read from
PriceUsable(r) ==
    /\ IsObj(r) /\ ~ErrorShaped(r) /\ HasKey(r, "lastPrice")
    /\ (IsNumStr(r.members["lastPrice"]) \/ IsNum(r.members["lastPrice"]))

IsFailure(r) == "success" \in DOMAIN r /\ ~r.success
IsSuccess(r) == "success" \in DOMAIN r /\ r.success

\* The requests of run() in program order: the two probes, the candles and
\* the price of the ratio, the sentiment and the price of line 526; then a
\* portfolio snapshot is a balance fetch and a price fetch.
Prelude == <<"ticker", "balances", "candles", "ticker", "sentiment", "ticker">>
Snapshot == <<"balances", "ticker">>

NoIndicator ==
    /\ ma_200 = NoRatio /\ mayer = NoRatio /\ fear_greed = -1
    /\ multiplier = -1 /\ buy_amount = -1

\* C3: if the connectivity check's ticker fetch or its balances fetch
\* returns an error shape, the run aborts with the fatal error 'API
\* connection test failed': no indicator is computed, no further request
\* (so no market buy) is sent, and the process exits non-zero.
C3_ConnectivityAbort ==
    /\ (sent \in {<<"ticker">>, <<"ticker", "balances">>} /\ ErrorShaped(resp)
            => pc = "done" /\ error = "API connection test failed")
    /\ (error = "API connection test failed"
            => /\ pc = "done" /\ exit_code = 1
               /\ sent \in {<<"ticker">>, <<"ticker", "balances">>}
               /\ Count("market_buy") = 0
               /\ NoIndicator)

\* The balances probe returned an object whose only marker is statusCode.
C3_Witness ==
    /\ sent = <<"ticker", "balances">>
    /\ HasKey(resp, "statusCode") /\ ~HasKey(resp, "error")
    /\ pc = "done" /\ exit_code = 1

NoPurchaseRun == Prelude \o Snapshot \o Snapshot

\* C4 as stated: when the decided amount is 0, execute_buy_order is not
\* called and no order is sent; the run proceeds to the final portfolio
\* step and completes without raising.
C4_AsStated ==
    buy_amount = 0 =>
        /\ Count("market_buy") = 0
        /\ result = Null
        /\ (pc = "done" => exit_code = 0 /\ error = "none" /\ sent = NoPurchaseRun)

\* C4 as amended: when the decided amount is 0, execute_buy_order is not
\* called and no order is sent; if the price fetch that follows the sizing
\* decision succeeds, the run proceeds to the final portfolio step and
\* completes without raising, and if that fetch fails the run ends there
\* with its error.
C4_NoPurchase ==
    buy_amount = 0 =>
        /\ Count("market_buy") = 0
        /\ result = Null
        /\ pc \notin {"order_balances", "order_price", "order_place"}
        /\ (pc = "done" =>
                IF sent = Prelude
                THEN ~PriceUsable(resp) /\ exit_code = 1 /\ error # "none"
                ELSE exit_code = 0 /\ error = "none" /\ sent = NoPurchaseRun)

C4_Witness ==
    /\ buy_amount = 0 /\ multiplier = 0
    /\ pc = "done" /\ exit_code = 0
    /\ sent = NoPurchaseRun

Insufficient == [success |-> FALSE, reason |-> Str("Insufficient balance")]

\* C5: when the decided amount is > 0 and the AUD available balance is below
\* it, execute_buy_order sends no market buy and returns a failure whose
\* reason is 'Insufficient balance'; run() does not raise on it, performs
\* the final portfolio step, and the process exits zero.  An order the API
\* rejects is handled the same way.
C5_HandledFailure ==
    /\ (sent = Prelude \o Snapshot \o <<"balances">> /\ buy_amount > 0
        /\ BalanceOf(balances, "AUD") < buy_amount
            => pc = "final_balances" /\ result = Insufficient)
    /\ (result = Insufficient
            => /\ Count("market_buy") = 0
               /\ (pc = "done" => sent = Prelude \o Snapshot \o <<"balances">> \o Snapshot))
    /\ (LastSent = "market_buy" /\ ErrorShaped(resp)
            => IsFailure(result) /\ pc = "final_balances")
    /\ (IsFailure(result)
            => /\ error = "none"
               /\ pc \in {"final_balances", "final_price", "done"}
               /\ (pc = "done" => exit_code = 0 /\ SubSeq(sent, Len(sent) - 1, Len(sent)) = Snapshot))

\* A run that ended zero after the balance check refused the order.
C5_Witness ==
    /\ result = Insufficient
    /\ buy_amount > 0
    /\ pc = "done" /\ exit_code = 0

ProgramOrders ==
    { NoPurchaseRun,
      Prelude \o Snapshot \o <<"balances">> \o Snapshot,
      Prelude \o Snapshot \o <<"balances", "ticker">> \o Snapshot,
      Prelude \o Snapshot \o <<"balances", "ticker", "market_buy">> \o Snapshot }

\* C8: in one invocation at most one market buy is sent, whatever the
\* responses: every request of run() is made at most once, in program
\* order, and a failed order or any other failed call is not made again.
C8_SingleAttempt ==
    /\ Count("market_buy") <= 1
    /\ \E order \in ProgramOrders : IsPrefix(sent, order)

\* An order the API rejected, and the run over.
C8_Witness ==
    /\ Count("market_buy") = 1
    /\ IsFailure(result)
    /\ pc = "done"

\* The payload int(data['data'][0]['value']) can be computed from.
SentimentWellFormed(b) ==
    /\ HasKey(b, "data")
    /\ IsArr(b.members["data"])
    /\ Len(b.members["data"].items) >= 1
    /\ HasKey(b.members["data"].items[1], "value")
    /\ LET v == b.members["data"].items[1].members["value"]
       IN  IsNumStr(v) \/ IsNum(v)

SentimentFailed(o) == o.tag # "ok" \/ ~o.json \/ ~SentimentWellFormed(o.body)

\* C9: get_fear_greed_index never raises: whatever the lookup's outcome the
\* run goes on, and on any failure (timeout, network or HTTP error, a
\* payload that is malformed or lacks a field, any other exception) the
\* value is 50 and the sizing decision is the one for 50.
C9_NeutralOnFailure ==
    LastSent = "sentiment" =>
        /\ pc = "run_price" /\ error = "none" /\ exit_code = -1
        /\ (SentimentFailed(outcome) =>
                /\ fear_greed = 50
                /\ multiplier = RowMultiplier[FirstRow(mayer, 50)]
                /\ signal = RowLabel[FirstRow(mayer, 50)])

\* A body that is JSON null: the lookup raises TypeError, which only the
\* catch-all handler takes.
C9_Witness ==
    /\ LastSent = "sentiment"
    /\ outcome.tag = "ok" /\ outcome.json /\ IsNull(outcome.body)
    /\ fear_greed = 50
    /\ pc = "run_price"

\* C10 as stated: the sentiment score handed to the sizing decision is an
\* integer in [0, 100] for every response of the sentiment service.
C10_AsStated ==
    multiplier # -1 => fear_greed \in 0..100

-----------------------------------------------------------------------------
(* C11, C12: the price ratio.                                              *)

\* the candles request was the latest one and answered with a JSON array
CandlesAnswered == LastSent = "candles" /\ outcome.tag = "ok" /\ outcome.json /\ IsArr(resp)

WellFormedFeed(items) == \A i \in 1..Len(items) : CandleClose(items[i]).ok

\* C11: when the candle feed yields fewer than 50 closing prices (an empty
\* feed included), get_mayer_multiple raises 'Insufficient price data' or
\* 'No candle data received' and computes no average and no ratio; the
\* exception ends run(): no sizing decision is made, no further request (so
\* no order) is sent, and the process exits non-zero.
C11_InsufficientData ==
    /\ (CandlesAnswered /\ Len(resp.items) < 50 =>
            /\ pc = "done" /\ exit_code = 1
            /\ (WellFormedFeed(resp.items) =>
                    error = (IF resp.items = <<>> THEN "No candle data received"
                             ELSE "Insufficient price data"))
            /\ NoIndicator)
    /\ (error \in {"Insufficient price data", "No candle data received"} =>
            /\ pc = "done" /\ exit_code = 1
            /\ sent = <<"ticker", "balances", "candles">>
            /\ Count("market_buy") = 0
            /\ NoIndicator /\ signal = "none" /\ result = Null)

\* A feed of 49 closing prices ended the run.
C11_Witness ==
    /\ CandlesAnswered /\ Len(resp.items) = 49 /\ WellFormedFeed(resp.items)
    /\ error = "Insufficient price data"
    /\ pc = "done"

\* the sum of the closing prices (index 4) of entries lo..hi of a feed
RECURSIVE SumOfCloses(_, _, _)
SumOfCloses(items, lo, hi) ==
    IF lo > hi THEN 0
    ELSE IF lo = hi THEN items[lo].items[5].numstr
    ELSE SumOfCloses(items, lo, (lo + hi) \div 2)
         + SumOfCloses(items, (lo + hi) \div 2 + 1, hi)

\* C12: for a newest-first feed of count >= 50 candles, the average is the
\* arithmetic mean of the closing prices of exactly the min(200, count)
\* first entries of the feed (the most recent candles), also when the feed
\* holds more than 200; the ratio is the current price divided by it.
C12_MostRecentWindow ==
    /\ (CandlesAnswered /\ Len(resp.items) >= 50 /\ WellFormedFeed(resp.items) =>
            LET n == IF Len(resp.items) < 200 THEN Len(resp.items) ELSE 200
            IN  /\ pc = "mayer_price"
                /\ ma_200.den = n
                /\ ma_200.num = SumOfCloses(resp.items, 1, n))
    /\ (pc = "fear_greed" =>
            /\ ma_200.num > 0
            /\ mayer.num * ma_200.num = price * ma_200.den * mayer.den)

\* A feed of 201 candles whose newest close differs from the others: the
\* window leaves the oldest candle out and holds the newest.
C12_Witness ==
    /\ pc = "fear_greed"
    /\ ma_200 = Ratio(71 + 199 * 20, 200)
    /\ price = 22
    /\ mayer = Ratio(22 * 200, 71 + 199 * 20)

-----------------------------------------------------------------------------
(* C13: what is signed is what is sent.                                    *)

\* the message the signature of the latest request was computed over
SignedMessage == wire.headers.BM_AUTH_SIGNATURE.base64.message

\* the string whose bytes the latest request carries as its body
TransmittedBody == IF IsNone(wire.body) THEN <<>> ELSE wire.body.some.utf8

\* C13: for every request the client sends, the signed message is method +
\* path + timestamp (+ body) with the timestamp equal to the value of the
\* BM-AUTH-TIMESTAMP header, one reading of the clock serving both; a
\* request with a payload signs the compact JSON string (no whitespace
\* after ',' or ':') whose bytes are its body, and a request without one
\* signs no body and carries none.
C13_SignedIsSent ==
    sent # <<>> =>
        /\ Len(wire.headers.BM_AUTH_TIMESTAMP) = 1
        /\ wire.headers.BM_AUTH_TIMESTAMP[1] \in { ToString(t) : t \in 1..MaxReading }
        /\ SignedMessage = wire.method \o Path(LastSent)
                           \o wire.headers.BM_AUTH_TIMESTAMP \o TransmittedBody
        /\ (LastSent \in {"market_buy", "limit_buy"} <=> ~IsNone(wire.body))
        /\ (~IsNone(wire.body) =>
                /\ wire.method = <<"POST">>
                /\ Head(TransmittedBody) = "{"
                /\ \A i \in 1..Len(TransmittedBody) :
                       TransmittedBody[i] \notin {", ", ": ", " "}
                /\ \E i \in 1..Len(TransmittedBody) : TransmittedBody[i] = ","
                /\ \E i \in 1..Len(TransmittedBody) : TransmittedBody[i] = ":")

\* A market buy signed and sent at the clock's second reading, after a
\* request sent at its first.
C13_Witness ==
    /\ Len(sent) = 2 /\ LastSent = "market_buy"
    /\ wire.headers.BM_AUTH_TIMESTAMP = <<"2">>
    /\ SignedMessage[3] = "2"
    /\ ~IsNone(wire.body)
    /\ SubSeq(SignedMessage, 4, Len(SignedMessage)) = wire.body.some.utf8

-----------------------------------------------------------------------------
(* C14: the two shapes of an order result.                                 *)

OrderFields == {"btc_amount", "aud_amount", "order_id", "order_status", "price"}

SuccessShape(r) ==
    /\ "success" \in DOMAIN r /\ r.success = TRUE
    /\ OrderFields \subseteq DOMAIN r
    /\ "reason" \notin DOMAIN r

FailureShape(r) ==
    /\ "success" \in DOMAIN r /\ r.success = FALSE
    /\ "reason" \in DOMAIN r
    /\ OrderFields \cap DOMAIN r = {}

\* C14: every value execute_buy_order returns has one of two shapes:
\* success with btc_amount, aud_amount, order_id, order_status and price
\* all present and no reason, or failure with a reason and none of the
\* order fields.  That holds on every path: execute_buy_order, once
\* called, returns such a value whatever its requests return, and an
\* exception raised inside it becomes a failure, never the run's error.
C14_TwoShapes ==
    /\ (result # Null => SuccessShape(result) \/ FailureShape(result))
    /\ (result # Null => ~(SuccessShape(result) /\ FailureShape(result)))
    /\ (pc \in {"order_balances", "order_price", "order_place"} =>
            error = "none" /\ result = Null)
    /\ (buy_amount > 0 /\ pc \in {"final_balances", "final_price"} =>
            result # Null /\ error = "none")
    /\ (SuccessShape(result) => LastSent \in {"market_buy", "balances", "ticker"}
                                /\ Count("market_buy") = 1)

\* The price fetch inside execute_buy_order raised: the value returned is a
\* failure whose reason is the exception.
C14_Witness ==
    /\ sent = Prelude \o Snapshot \o <<"balances", "ticker">>
    /\ pc = "final_balances"
    /\ FailureShape(result)
    /\ result.reason = Str("API Error")

-----------------------------------------------------------------------------
(* C15: the exit status.                                                   *)

\* the cycle ran to its end: every request of one of the program orders
\* was made and no exception ended the run
CycleCompleted == sent \in ProgramOrders /\ error = "none"

\* C15 as stated: the process exits zero exactly when the cycle completes
\* (purchase, no purchase, or a handled order failure) and exits non-zero
\* on every error; no exception raised inside run() is swallowed.
C15_AsStated ==
    pc = "done" =>
        /\ (exit_code = 0 <=> CycleCompleted)
        /\ (error # "none" => exit_code # 0)

\* C15 as amended: the process exits zero exactly when the cycle completes
\* (purchase, no purchase, or a handled order failure) or the user
\* interrupts it (KeyboardInterrupt, logged by __main__ and not re-raised),
\* and exits non-zero on every other error: an Exception raised while the
\* bot is built or inside run() is logged and re-raised, never swallowed.
C15_ExitStatus ==
    /\ (pc # "done" => exit_code = -1 /\ error = "none")
    /\ (pc = "done" =>
            /\ exit_code \in {0, 1}
            /\ (exit_code = 0 <=> CycleCompleted \/ error = "KeyboardInterrupt")
            /\ (exit_code = 1 <=> error \notin {"none", "KeyboardInterrupt"})
            /\ (CycleCompleted =>
                    \/ IsSuccess(result)
                    \/ IsFailure(result)
                    \/ result = Null /\ buy_amount <= 0))

\* The price fetch that follows the sizing decision raised: non-zero exit.
C15_Witness ==
    /\ pc = "done"
    /\ sent = Prelude
    /\ error = "API Error"
    /\ exit_code = 1

-----------------------------------------------------------------------------
(* C16: missing credentials.                                               *)

CredentialAbsent ==
    config.BTCMARKETS_API_KEY = "" \/ config.BTCMARKETS_PRIVATE_KEY = ""

\* C16: if the API key or the API secret is absent (unset or empty), the
\* construction of the bot fails in Config.validate, before the client is
\* created (the secret is not decoded) and before any network call: no
\* ticker, balance, candle, sentiment or order request is ever sent in that
\* invocation, and the process exits non-zero.
C16_NoCallWithoutCredentials ==
    CredentialAbsent =>
        /\ sent = <<>> /\ wire = NoRequest /\ outcome = NoOutcome
        /\ pc \in {"main", "done"}
        /\ (pc = "done" =>
                error = "Missing required environment variables" /\ exit_code = 1)
        /\ NoIndicator /\ result = Null

\* The key is absent and the secret is no base64: the run ended in
\* Config.validate, not in the client's constructor.
C16_Witness ==
    /\ config.BTCMARKETS_API_KEY = ""
    /\ config.BTCMARKETS_PRIVATE_KEY = "c2VjcmV"
    /\ pc = "done"
    /\ error = "Missing required environment variables"
    /\ sent = <<>>

-----------------------------------------------------------------------------
(* C17: the final portfolio snapshot.                                      *)

AfterStrategy ==
    pc \in {"order_balances", "order_price", "order_place", "final_balances",
            "final_price"}

\* the run reached the strategy step and ended
RanToEnd == pc = "done" /\ sent \in ProgramOrders

\* C17 as stated: in every run that reaches the strategy step a final
\* portfolio snapshot is emitted whatever the branch taken, also when the
\* balance fetch or the price fetch made for it returns an error.
C17_AsStated ==
    /\ (pc = "strategy" \/ AfterStrategy => error = "none")
    /\ (RanToEnd => SnapshotLogged(portfolio))

\* C17 as amended: in every run that reaches the strategy step the final
\* portfolio snapshot is attempted whatever the branch taken (its balance
\* fetch and its price fetch are the run's last two requests) and the run
\* ends normally.  The snapshot is emitted exactly when its price fetch
\* succeeds: a failed balance fetch gives a snapshot with zero balances,
\* and a failed price fetch gives no snapshot.
C17_FinalSnapshot ==
    /\ (pc = "strategy" \/ AfterStrategy => error = "none")
    /\ (pc = "done" /\ Len(sent) > Len(Prelude) =>
            /\ RanToEnd /\ exit_code = 0 /\ error = "none"
            /\ SubSeq(sent, Len(sent) - 1, Len(sent)) = Snapshot)
    /\ (RanToEnd =>
            /\ SnapshotLogged(portfolio) <=> PriceUsable(resp)
            /\ (SnapshotLogged(portfolio) =>
                    /\ portfolio.aud_balance = BalanceOf(balances, "AUD")
                    /\ portfolio.btc_balance = BalanceOf(balances, "BTC")
                    /\ portfolio.current_btc_price = price
                    /\ portfolio.total_portfolio_aud
                         = portfolio.btc_balance * price + portfolio.aud_balance
                    /\ (balances = <<>> => portfolio.total_portfolio_aud = 0)))

\* After a failed purchase the final balance fetch gave nothing and the
\* price fetch succeeded: a snapshot with zero balances is emitted.
C17_Witness ==
    /\ RanToEnd
    /\ IsFailure(result)
    /\ balances = <<>>
    /\ SnapshotLogged(portfolio)
    /\ portfolio.total_portfolio_aud = 0

-----------------------------------------------------------------------------
(* get_account_balance on its own: one balance fetch, over lists of        *)
(* entries of every amount shape, one entry per asset.                     *)

MaxEntries == 2

Assets == {"AUD", "BTC", "ETH"}

AmountShapes ==
    {"available", "balance_only", "number", "absent", "unparseable",
     "balance_unparseable", "null"}

\* The entry of asset a with an amount of the given shape; 7 is the amount
\* a well-formed `available` shows and 9 the one a well-formed `balance` does.
ShapedEntry(a, shape) ==
    CASE shape = "available" ->
            Obj("assetName" :> Str(a) @@ "balance" :> NumStr(9)
                @@ "available" :> NumStr(7) @@ "locked" :> NumStr(2))
      [] shape = "balance_only" ->
            Obj("assetName" :> Str(a) @@ "balance" :> NumStr(9))
      [] shape = "number" ->
            Obj("assetName" :> Str(a) @@ "balance" :> NumStr(9)
                @@ "available" :> Num(7))
      [] shape = "absent" -> Obj("assetName" :> Str(a))
      [] shape = "unparseable" ->
            Obj("assetName" :> Str(a) @@ "balance" :> NumStr(9)
                @@ "available" :> Str("n/a"))
      [] shape = "balance_unparseable" ->
            Obj("assetName" :> Str(a) @@ "balance" :> Str(""))
      [] OTHER ->
            Obj("assetName" :> Str(a) @@ "balance" :> NumStr(9)
                @@ "available" :> Null)

BalanceLists ==
    UNION { { [i \in 1..n |-> ShapedEntry(as[i], sh[i])] :
                as \in { f \in [1..n -> Assets] :
                           \A i, j \in 1..n : i # j => f[i] # f[j] },
                sh \in [1..n -> AmountShapes] } : n \in 0..MaxEntries }

BalanceOutcomes == { Ok(Arr(l)) : l \in BalanceLists } \cup RunFailures

InitBalances ==
    /\ pc = "balances"
    /\ config = MakeConfig("key", "c2VjcmV0", AUD(500), AUD(100), AUD(2000))
    /\ sent = <<>>
    /\ outcome = NoOutcome
    /\ resp = Null
    /\ ma_200 = NoRatio
    /\ mayer = NoRatio
    /\ fear_greed = -1
    /\ multiplier = -1
    /\ signal = "none"
    /\ buy_amount = -1
    /\ balances = <<>>
    /\ price = -1
    /\ portfolio = Null
    /\ result = Null
    /\ error = "none"
    /\ exit_code = -1
    /\ wire = NoRequest
    /\ account = NoAccount
    /\ fs = {LogsDir, LogFile}
    /\ handlers = Installed

\* get_account_balance: the request and the map parsed from its response.
FetchBalances ==
    /\ pc = "balances"
    /\ \E o \in BalanceOutcomes : get_account_balances(o)
    /\ balances' = GetAccountBalance(resp')
    /\ pc' = "parsed"
    /\ UNCHANGED <<fs, handlers, account, config, ma_200, mayer, fear_greed, multiplier, signal,
                   buy_amount, price, portfolio, result, error, exit_code>>

NextBalances == FetchBalances

SpecBalances == InitBalances /\ [][NextBalances]_vars

-----------------------------------------------------------------------------
(* C18: one malformed amount does not spoil the others.                    *)

\* the asset of an entry, and what the entry gives as its amount: its
\* `available` member when it has one, else its `balance` member
AssetOf(entry) == entry.members["assetName"].str

HasAmount(entry) == HasKey(entry, "available") \/ HasKey(entry, "balance")

AmountOf(entry) ==
    IF HasKey(entry, "available") THEN entry.members["available"]
    ELSE entry.members["balance"]

WellFormedAmount(entry) ==
    HasAmount(entry) /\ (IsNumStr(AmountOf(entry)) \/ IsNum(AmountOf(entry)))

ValueOf(amount) == IF IsNumStr(amount) THEN amount.numstr ELSE amount.num

Parsed == pc = "parsed" /\ outcome.tag = "ok" /\ IsArr(resp)

\* C18 as stated: an entry whose amount is malformed (unparseable, or
\* missing) maps its asset to zero and does not abort the fetch: every
\* well-formed entry of the same response is parsed to its own value (its
\* `available` amount when present, else its `balance`), wherever the
\* malformed entry sits in the list.
C18_AsStated ==
    Parsed =>
        \A i \in 1..Len(resp.items) :
            LET entry == resp.items[i] IN
                /\ AssetOf(entry) \in DOMAIN balances
                /\ balances[AssetOf(entry)] =
                       (IF WellFormedAmount(entry) THEN ValueOf(AmountOf(entry))
                        ELSE 0)

\* C18 as amended: the same, except that an amount that is JSON null leaves
\* its asset out of the map (which balances.get(asset, 0) reads as zero)
\* instead of mapping it to zero.
C18_MalformedIsZero ==
    Parsed =>
        /\ \A i \in 1..Len(resp.items) :
            LET entry == resp.items[i] IN
                IF HasAmount(entry) /\ IsNull(AmountOf(entry))
                THEN /\ AssetOf(entry) \notin DOMAIN balances
                     /\ BalanceOf(balances, AssetOf(entry)) = 0
                ELSE /\ AssetOf(entry) \in DOMAIN balances
                     /\ balances[AssetOf(entry)] =
                            (IF WellFormedAmount(entry) THEN ValueOf(AmountOf(entry))
                             ELSE 0)
        /\ DOMAIN balances \subseteq { AssetOf(resp.items[i]) : i \in 1..Len(resp.items) }

\* A malformed amount ahead of a well-formed one: the first asset is zero,
\* the second has its available amount.
C18_Witness ==
    /\ Parsed
    /\ Len(resp.items) = 2
    /\ HasAmount(resp.items[1]) /\ IsStr(AmountOf(resp.items[1]))
    /\ HasKey(resp.items[2], "available") /\ WellFormedAmount(resp.items[2])
    /\ balances[AssetOf(resp.items[1])] = 0
    /\ balances[AssetOf(resp.items[2])] = 7

-----------------------------------------------------------------------------
(* Two invocations against the same account, both inside                   *)
(* execute_buy_order: pc, buy_amount, balances, price and result hold one  *)
(* value per invocation, and account is the exchange's side.               *)

Invocations == {1, 2}

\* The exchange's answer to a balance request: the account as it stands.
AccountBody(acct) ==
    Arr(<<BalanceEntry("AUD", acct.aud), BalanceEntry("BTC", 2)>>)

InsufficientFund ==
    Outcome("http_error", TRUE, 400,
            Obj("code" :> Str("InsufficientFund")
                @@ "message" :> Str("insufficient fund")))

NetworkFailure == Outcome("url_error", FALSE, 0, Null)

\* The exchange's answer to a market buy worth `amount`: accepted when the
\* account holds it, refused otherwise; or the request does not arrive.
ExchangeOrderOutcomes(acct, amount) ==
    (IF acct.aud >= amount
     THEN { Ok(Obj("orderId" :> Str("7524") @@ "status" :> Str("Accepted"))) }
     ELSE { InsufficientFund })
    \cup { NetworkFailure }

InitOverlap ==
    /\ pc = [i \in Invocations |-> "order_balances"]
    /\ config = MakeConfig("key", "c2VjcmV0", AUD(500), AUD(100), AUD(2000))
    /\ account \in { [aud |-> a] : a \in {AUD(150), AUD(1500), AUD(2500)} }
    /\ buy_amount \in [Invocations -> {AUD(500), AUD(1000)}]
    /\ balances = [i \in Invocations |-> <<>>]
    /\ price = [i \in Invocations |-> -1]
    /\ result = [i \in Invocations |-> Null]
    /\ sent = <<>>
    /\ outcome = NoOutcome
    /\ resp = Null
    /\ ma_200 = NoRatio
    /\ mayer = NoRatio
    /\ fear_greed = -1
    /\ multiplier = -1
    /\ signal = "none"
    /\ portfolio = Null
    /\ error = "none"
    /\ exit_code = -1
    /\ wire = NoRequest
    /\ fs = {LogsDir, LogFile}
    /\ handlers = Installed

\* the other invocation is between its balance check and its order
OtherInFlight(i) ==
    \E j \in Invocations : j # i /\ pc[j] \in {"order_price", "order_place"}

\* execute_buy_order of invocation i: the balance check.  With `guarded`
\* the check waits while the other invocation is in flight.
ReadBalance(i, guarded) ==
    /\ pc[i] = "order_balances"
    /\ guarded => ~OtherInFlight(i)
    /\ \E o \in { Ok(AccountBody(account)), NetworkFailure } :
        get_account_balances(o)
    /\ balances' = [balances EXCEPT ![i] = GetAccountBalance(resp')]
    /\ IF InsufficientBalance(BalanceOf(balances'[i], "AUD"), buy_amount[i])
       THEN /\ pc' = [pc EXCEPT ![i] = "returned"]
            /\ result' = [result EXCEPT ![i] = Failure("Insufficient balance")]
       ELSE /\ pc' = [pc EXCEPT ![i] = "order_price"]
            /\ UNCHANGED result
    /\ UNCHANGED <<fs, handlers, account, config, ma_200, mayer, fear_greed, multiplier, signal,
                   buy_amount, price, portfolio, error, exit_code>>

\* A guard the code does not have: a lock held from the balance check to
\* the order.
OverlapOrderBalancesLocked(i) == ReadBalance(i, TRUE)

\* execute_buy_order of invocation i: the balance check.
OverlapOrderBalances(i) == ReadBalance(i, FALSE)

\* execute_buy_order of invocation i: the price for the amount.
OverlapOrderPrice(i) ==
    /\ pc[i] = "order_price"
    /\ \E o \in { Ok(Ticker(22)), NetworkFailure } : get_ticker(o)
    /\ IF IsRaised(GetCurrentPrice(resp'))
       THEN /\ pc' = [pc EXCEPT ![i] = "returned"]
            /\ result' = [result EXCEPT ![i] = Failure(GetCurrentPrice(resp').raised)]
            /\ UNCHANGED price
       ELSE /\ pc' = [pc EXCEPT ![i] = "order_place"]
            /\ price' = [price EXCEPT ![i] = GetCurrentPrice(resp').num]
            /\ UNCHANGED result
    /\ UNCHANGED <<fs, handlers, account, config, ma_200, mayer, fear_greed, multiplier, signal,
                   buy_amount, balances, portfolio, error, exit_code>>

\* execute_buy_order of invocation i: the market buy and the result.
OverlapOrderPlace(i) ==
    /\ pc[i] = "order_place"
    /\ \E o \in ExchangeOrderOutcomes(account, buy_amount[i]) :
        /\ place_market_buy_order(o)
        /\ account' = IF o.tag = "ok"
                      THEN [aud |-> account.aud - buy_amount[i]]
                      ELSE account
    /\ result' = [result EXCEPT ![i] = OrderResult(resp', buy_amount[i], price[i])]
    /\ pc' = [pc EXCEPT ![i] = "returned"]
    /\ UNCHANGED <<fs, handlers, config, ma_200, mayer, fear_greed, multiplier, signal,
                   buy_amount, balances, price, portfolio, error, exit_code>>

NextOverlap ==
    \E i \in Invocations :
        \/ OverlapOrderBalances(i)
        \/ OverlapOrderPrice(i)
        \/ OverlapOrderPlace(i)

SpecOverlap == InitOverlap /\ [][NextOverlap]_vars

-----------------------------------------------------------------------------
(* C19: overlapping invocations.                                           *)

\* C19: nothing guards two overlapping invocations against each other.  No
\* step of one ever waits for the other, and each decides on the balance it
\* read itself: it goes on to its order exactly when that reading covers
\* its own amount, whatever the other has read or sent since.  So both can
\* read the same balance, both pass the check and both submit a market buy,
\* the two amounts together exceeding the balance either verified (the
\* witness).
C19_NoGuard ==
    \A i \in Invocations :
        /\ (pc[i] = "order_balances" => ENABLED OverlapOrderBalances(i))
        /\ (pc[i] = "order_price" => ENABLED OverlapOrderPrice(i))
        /\ (pc[i] = "order_place" => ENABLED OverlapOrderPlace(i))
        /\ (pc[i] \in {"order_price", "order_place"} =>
                BalanceOf(balances[i], "AUD") >= buy_amount[i])
        /\ (result[i] = Insufficient =>
                BalanceOf(balances[i], "AUD") < buy_amount[i])

\* Both invocations read the same balance, both passed the check and both
\* submitted their market buy; the two amounts exceed that balance.
C19_Witness ==
    /\ \A i \in Invocations : pc[i] = "returned" /\ result[i] # Insufficient
    /\ Count("market_buy") = 2
    /\ balances[1] = balances[2]
    /\ BalanceOf(balances[1], "AUD") >= buy_amount[1]
    /\ BalanceOf(balances[2], "AUD") >= buy_amount[2]
    /\ buy_amount[1] + buy_amount[2] > BalanceOf(balances[1], "AUD")

-----------------------------------------------------------------------------
(* C20: what precedes a market buy.                                        *)

\* the response is a list with an AUD entry whose amount (available when
\* present, else balance) is a number of at least `amount`
ShowsAudAtLeast(r, amount) ==
    /\ IsArr(r)
    /\ \E i \in 1..Len(r.items) :
        /\ IsObj(r.items[i]) /\ HasKey(r.items[i], "assetName")
        /\ AssetOf(r.items[i]) = "AUD"
        /\ WellFormedAmount(r.items[i])
        /\ ValueOf(AmountOf(r.items[i])) >= amount

OrderRun == Prelude \o Snapshot \o <<"balances", "ticker", "market_buy">>

BelowMinimum == [success |-> FALSE, reason |-> Str("Amount below minimum")]

\* C20: a market buy is sent only after, in the same invocation, the
\* connectivity check passed (neither probe's response was error-shaped),
\* the sizing decision returned an amount > 0 and >= the configured
\* minimum, and the balance fetch inside execute_buy_order succeeded and
\* showed an AUD amount >= the decided amount.  A failed balance fetch at
\* order time gives an empty map and the 'Insufficient balance' failure,
\* never an order; and execute_buy_order's 'Amount below minimum' outcome
\* is never reached from run().
C20_OrderPreconditions ==
    /\ (Len(sent) \in {1, 2} /\ pc # "done" => ~ErrorShaped(resp))
    /\ (pc \in {"order_balances", "order_price", "order_place"}
        \/ Count("market_buy") > 0 =>
            /\ buy_amount > 0
            /\ buy_amount >= config.MIN_WEEKLY_AMOUNT
            /\ IsPrefix(Prelude \o Snapshot, sent))
    /\ (pc = "order_price" =>
            /\ LastSent = "balances"
            /\ outcome.tag = "ok" /\ outcome.json /\ ~ErrorShaped(resp)
            /\ ShowsAudAtLeast(resp, buy_amount)
            /\ BalanceOf(balances, "AUD") >= buy_amount)
    /\ (pc = "order_place" \/ LastSent = "market_buy" =>
            /\ balances # <<>>
            /\ BalanceOf(balances, "AUD") >= buy_amount)
    /\ (Count("market_buy") > 0 => IsPrefix(OrderRun, sent))
    /\ (sent = Prelude \o Snapshot \o <<"balances">> /\ buy_amount > 0
        /\ (outcome.tag # "ok" \/ ErrorShaped(resp)) =>
            /\ balances = <<>>
            /\ result = Insufficient
            /\ pc = "final_balances")
    /\ result # BelowMinimum

\* An order sent for an amount the clamp raised to the minimum: base 50
\* times 1.0 is 50, below the floor of 100.
C20_Witness ==
    /\ LastSent = "market_buy"
    /\ config.BASE_WEEKLY_AMOUNT = AUD(50)
    /\ multiplier = 10
    /\ buy_amount = config.MIN_WEEKLY_AMOUNT
    /\ BalanceOf(balances, "AUD") >= buy_amount

-----------------------------------------------------------------------------
(* C21: the sizing decision is monotone in each indicator.                 *)

\* a <= b for two ratios with positive denominators
RatioLe(a, b) == a.num * b.den <= b.num * a.den

\* the amounts the claim's second half is about
OrderedAmounts(cfg) ==
    /\ cfg.BASE_WEEKLY_AMOUNT >= 0
    /\ 0 <= cfg.MIN_WEEKLY_AMOUNT
    /\ cfg.MIN_WEEKLY_AMOUNT <= cfg.MAX_WEEKLY_AMOUNT

\* C21: once calculate_buy_amount has decided, no higher price ratio with the
\* same sentiment, and no higher sentiment with the same price ratio, selects
\* a larger multiplier; and when base >= 0 and 0 <= min <= max, none of them
\* gives a larger clamped amount either.
C21_Monotone ==
    pc = "decided" =>
        /\ \A m2 \in DecideRatios :
               RatioLe(mayer, m2) =>
                   /\ SelectRule(m2, fear_greed).multiplier <= multiplier
                   /\ OrderedAmounts(config) =>
                          CalculateBuyAmount(config, m2, fear_greed).final_amount
                              <= buy_amount
        /\ \A fg2 \in DecideSentiments :
               fear_greed <= fg2 =>
                   /\ SelectRule(mayer, fg2).multiplier <= multiplier
                   /\ OrderedAmounts(config) =>
                          CalculateBuyAmount(config, mayer, fg2).final_amount
                              <= buy_amount

\* A decision in the top row (4.0 x 50 = 200) that both a higher ratio and a
\* higher sentiment strictly lower.
C21_Witness ==
    /\ pc = "decided"
    /\ OrderedAmounts(config)
    /\ multiplier = 40
    /\ buy_amount = AUD(200)
    /\ \E m2 \in DecideRatios :
           /\ RatioLe(mayer, m2)
           /\ CalculateBuyAmount(config, m2, fear_greed).final_amount < buy_amount
    /\ \E fg2 \in DecideSentiments :
           /\ fear_greed <= fg2
           /\ CalculateBuyAmount(config, mayer, fg2).final_amount < buy_amount

-----------------------------------------------------------------------------
(* C22: the logs directory at startup.                                     *)

\* C22, as stated: whatever directory the script is started in, once the
\* logging setup is over the logs directory exists, the file handler is
\* installed, and the invocation has not failed for want of the directory.
C22_AsStated ==
    pc # "logging" =>
        /\ LogsDir \in fs
        /\ handlers = Installed
        /\ error # "FileNotFoundError"

\* What the code does in a directory without logs: the handler's open fails
\* before __main__ is reached, nothing is created and nothing is sent.
C22_StartupFails ==
    /\ pc = "done"
    /\ error = "FileNotFoundError"
    /\ exit_code = 1
    /\ LogsDir \notin fs
    /\ handlers = <<>>
    /\ sent = <<>>

====
